---- MODULE Spec2Model ----
(***************************************************************************)
(* Blue/Green Deployment reconciliation of er-aws-rds.                     *)
(*                                                                         *)
(* The program state is the BlueGreenDeploymentManager (its model, the     *)
(* planned actions and the position in the for loop of run()); the         *)
(* environment is the RDS service behind AWSApi: the DB instance, the      *)
(* blue/green deployment, its member instances and the parameter groups.   *)
(* One pass of run() is split at the AWSApi calls, where the service may   *)
(* make progress on its own.                                               *)
(***************************************************************************)
EXTENDS Integers, Sequences, FiniteSets, TLC

VARIABLES
    config,                \* app_interface_input.data.blue_green_deployment
    dry_run,               \* BlueGreenDeploymentManager.dry_run
    rds_instance,          \* the DB instance named by provision.identifier
    rds_parameter_groups,  \* names of the DB parameter groups that exist
    rds_deployment,        \* the blue/green deployment named like the instance
    rds_sources,           \* status of each source member instance
    rds_targets,           \* status of each target member instance
    rds_green,             \* attributes of the green (target) environment
    pc,                    \* position of run(): start, loop, done, failed
    model,                 \* BlueGreenDeploymentManager.model
    actions,               \* the list returned by plan_actions()
    idx,                   \* number of actions the for loop has finished
    result,                \* the State returned by run()
    error,                 \* the exception that left run()
    calls,                 \* mutating AWSApi calls of this pass, in order
    reads,                 \* read operations of AWSApi called in this pass
    handled,               \* action types whose handler was invoked, in order
    derived,               \* the state derived by _init_state in this pass
    pass,                  \* number of the current invocation of run()
    prev,                  \* what the previous invocation, a dry run, read and returned
    snapshot,              \* the service as _build_model of this pass read it
    wait,                  \* the frame of a call of wait_for, None without one
    exit_code,             \* the exit status of hooks/pre_run.py, Unset while it runs
    runtime                \* WORK, the files and the calls of hooks/utils/runtime.py

vars == <<config, dry_run, rds_instance, rds_parameter_groups, rds_deployment,
          rds_sources, rds_targets, rds_green, pc, model, actions, idx, result,
          error, calls, reads, handled, derived, pass, prev, snapshot, wait,
          exit_code, runtime>>

rdsVars == <<rds_instance, rds_parameter_groups, rds_deployment, rds_sources,
             rds_targets, rds_green>>

-----------------------------------------------------------------------------
(* Bounds of the model *)

MaxMembers == 2
MaxPasses == 2
MaxDefects == 1

MaxChecks == 3     \* condition checks of a wait_for followed
MaxTimeout == 3    \* largest timeout given to wait_for, in seconds
MaxInterval == 2   \* largest interval given to wait_for, in seconds
Resolution == 2    \* ticks of the clock in a second
MaxLatency == 1    \* ticks a condition check, and a sleep beyond its interval, can take
MaxHookCalls == 3  \* calls of mark_rerun, should_rerun and post_run followed

-----------------------------------------------------------------------------
(* Python's None: of an optional object, and of an optional scalar field. *)

None == [none |-> TRUE]

Unset == "None"

(* hooks/utils/models.py *)

State ==
    {"init", "not_enabled", "provisioning", "available", "switchover_in_progress",
     "switchover_completed", "deleting_source_db_instances",
     "source_db_instances_deleted", "deleting", "no_op"}

ActionType ==
    {"no_op", "create", "wait_for_available", "switchover",
     "wait_for_switchover_completed", "delete_source_db_instance",
     "wait_for_source_db_instances_deleted", "delete_without_switchover",
     "delete", "wait_for_deleted"}

(* er_aws_rds/input.py: the optional overrides of BlueGreenDeploymentTarget;
   parameter_group is kept by its name. *)
TargetFields ==
    {"allocated_storage", "engine_version", "instance_class", "iops",
     "parameter_group_name", "storage_throughput", "storage_type"}

(* The key of DBInstanceTypeDef each target field is compared with. *)
InstanceKey ==
    [allocated_storage |-> "AllocatedStorage",
     engine_version |-> "EngineVersion",
     instance_class |-> "DBInstanceClass",
     iops |-> "Iops",
     parameter_group_name |-> "DBParameterGroupName",
     storage_throughput |-> "StorageThroughput",
     storage_type |-> "StorageType"]

(* serialization_alias of each field of CreateBlueGreenDeploymentParams. *)
SerializationAlias ==
    [name |-> "BlueGreenDeploymentName",
     source_arn |-> "Source",
     allocated_storage |-> "TargetAllocatedStorage",
     engine_version |-> "TargetEngineVersion",
     instance_class |-> "TargetDBInstanceClass",
     iops |-> "TargetIops",
     parameter_group_name |-> "TargetDBParameterGroupName",
     storage_throughput |-> "TargetStorageThroughput",
     storage_type |-> "TargetStorageType",
     tags |-> "Tags"]

-----------------------------------------------------------------------------
(* The RDS service behind hooks/utils/aws_api.py *)

(* tests/conftest.py DEFAULT_RDS_INSTANCE, with the keys the validators read. *)
HealthyInstance ==
    [DBInstanceArn |-> "some-arn",
     DBInstanceIdentifier |-> "test-rds",
     DBInstanceStatus |-> "available",
     DeletionProtection |-> FALSE,
     BackupRetentionPeriod |-> 7,
     Engine |-> "postgres",
     EngineVersion |-> "15.7",
     DBParameterGroups |->
         <<[DBParameterGroupName |-> "test-rds-pg15",
            ParameterApplyStatus |-> "in-sync"]>>,
     Iops |-> "3000",
     DBInstanceClass |-> "db.t4g.micro",
     StorageType |-> "gp3",
     AllocatedStorage |-> "20",
     StorageThroughput |-> "125"]

(* The value of the live instance a target field is compared with. *)
InstanceValue(db_instance, f) ==
    IF f = "parameter_group_name"
    THEN db_instance.DBParameterGroups[1].DBParameterGroupName
    ELSE db_instance[InstanceKey[f]]

(* The values the configurations give a target field: unset, the live value
   or another one. The fields that take part in validation vary; the other
   overrides are handled like instance_class throughout. *)
TargetChoices ==
    [allocated_storage |-> {Unset},
     engine_version |-> {Unset, "15.7", "16.3"},
     instance_class |-> {Unset, "db.t4g.micro"},
     iops |-> {Unset},
     parameter_group_name |-> {Unset, "test-rds-pg16"},
     storage_throughput |-> {Unset},
     storage_type |-> {Unset}]

EngineKinds ==
    {[Engine |-> "postgres", EngineVersion |-> "15.7"],
     [Engine |-> "postgres", EngineVersion |-> "15.3"],
     [Engine |-> "mysql", EngineVersion |-> "8.0.36"],
     [Engine |-> "mysql", EngineVersion |-> "5.6.2"],
     [Engine |-> "oracle-ee", EngineVersion |-> "19.0"]}

(* describe_db_engine_versions(Engine, EngineVersion, IncludeAll):
   the ValidUpgradeTarget list of the first engine version found. *)
RdsValidUpgradeTarget(engine, version) ==
    CASE engine = "postgres" /\ version = "15.3" ->
            {[Engine |-> engine, EngineVersion |-> "15.7", IsMajorVersionUpgrade |-> FALSE],
             [Engine |-> engine, EngineVersion |-> "16.3", IsMajorVersionUpgrade |-> TRUE]}
      [] engine = "postgres" /\ version = "15.7" ->
            {[Engine |-> engine, EngineVersion |-> "16.3", IsMajorVersionUpgrade |-> TRUE]}
      [] engine = "mysql" /\ version = "5.6.2" ->
            {[Engine |-> engine, EngineVersion |-> "8.4.4", IsMajorVersionUpgrade |-> TRUE]}
      [] engine = "mysql" /\ version = "8.0.36" ->
            {[Engine |-> engine, EngineVersion |-> "8.4.4", IsMajorVersionUpgrade |-> TRUE]}
      [] OTHER -> {}

(* describe_db_engine_versions(Engine, Filters): the versions on offer. *)
RdsEngineVersions(engine) ==
    CASE engine = "postgres" -> {"15.3", "15.7", "16.3"}
      [] engine = "mysql" -> {"5.6.2", "8.0.36", "8.4.4"}
      [] engine = "oracle-ee" -> {"19.0"}
      [] OTHER -> {}

get_rds_valid_upgrade_targets(engine, version) ==
    LET items == RdsValidUpgradeTarget(engine, version)
    IN  [v \in {item.EngineVersion : item \in items} |->
            CHOOSE item \in items : item.EngineVersion = v]

get_blue_green_deployment_valid_upgrade_targets(engine, version) ==
    LET current_version_as_target ==
            [Engine |-> engine, EngineVersion |-> version,
             IsMajorVersionUpgrade |-> FALSE]
        rds == get_rds_valid_upgrade_targets(engine, version)
        candidate_upgrade_targets ==
            [v \in {version} \cup DOMAIN rds |->
                IF v \in DOMAIN rds THEN rds[v] ELSE current_version_as_target]
        available_versions ==
            RdsEngineVersions(engine) \cap DOMAIN candidate_upgrade_targets
    IN  [v \in available_versions |-> candidate_upgrade_targets[v]]

get_db_parameter_group(groups, name) ==
    IF name \in groups THEN [DBParameterGroupName |-> name] ELSE None

(* Identifier of a member instance of the deployment. *)
MemberId(role, i) == [role |-> role, index |-> i]

(* get_db_instance of a member: None once the instance is gone. *)
get_member_instance(sources, targets, identifier) ==
    LET status == IF identifier.role = "source"
                  THEN sources[identifier.index]
                  ELSE targets[identifier.index]
    IN  IF status = "absent"
        THEN None
        ELSE [DBInstanceIdentifier |-> identifier, DBInstanceStatus |-> status]

(* filter(None, ...) over a list *)
RECURSIVE FilterNone(_)
FilterNone(xs) ==
    IF xs = <<>> THEN <<>>
    ELSE IF Head(xs) = None THEN FilterNone(Tail(xs))
         ELSE <<Head(xs)>> \o FilterNone(Tail(xs))

_fetch_blue_green_deployment_member_instances(sources, targets, blue_green_deployment, key) ==
    IF blue_green_deployment = None
    THEN <<>>
    ELSE FilterNone(
            [i \in 1..Len(blue_green_deployment.SwitchoverDetails) |->
                get_member_instance(sources, targets,
                    blue_green_deployment.SwitchoverDetails[i][key])])

(* A faulty variant of _fetch_source_db_instances, rejected by C28: the
   members are read under the key of the green ones *)
_fetch_source_db_instances_of_targets(sources, targets, blue_green_deployment) ==
    _fetch_blue_green_deployment_member_instances(
        sources, targets, blue_green_deployment, "TargetMember")

_fetch_source_db_instances(sources, targets, blue_green_deployment) ==
    _fetch_blue_green_deployment_member_instances(
        sources, targets, blue_green_deployment, "SourceMember")

_fetch_target_db_instances(sources, targets, blue_green_deployment) ==
    _fetch_blue_green_deployment_member_instances(
        sources, targets, blue_green_deployment, "TargetMember")

-----------------------------------------------------------------------------
(* hooks/utils/semantic.py and the version rules of the model *)

(* Version.parse(version, optional_minor_and_patch=True) on the version
   strings that occur: major, minor and patch, the missing ones 0. *)
parse_semver(version) ==
    CASE version = "5.5.1" -> [major |-> 5, minor |-> 5, patch |-> 1]
      [] version = "5.6.2" -> [major |-> 5, minor |-> 6, patch |-> 2]
      [] version = "5.7" -> [major |-> 5, minor |-> 7, patch |-> 0]
      [] version = "5.7.44" -> [major |-> 5, minor |-> 7, patch |-> 44]
      [] version = "8.0" -> [major |-> 8, minor |-> 0, patch |-> 0]
      [] version = "8.0.32" -> [major |-> 8, minor |-> 0, patch |-> 32]
      [] version = "8.0.36" -> [major |-> 8, minor |-> 0, patch |-> 36]
      [] version = "8.1.0" -> [major |-> 8, minor |-> 1, patch |-> 0]
      [] version = "8.3.0" -> [major |-> 8, minor |-> 3, patch |-> 0]
      [] version = "8.4" -> [major |-> 8, minor |-> 4, patch |-> 0]
      [] version = "8.4.3" -> [major |-> 8, minor |-> 4, patch |-> 3]
      [] version = "8.4.4" -> [major |-> 8, minor |-> 4, patch |-> 4]
      [] version = "9.0.1" -> [major |-> 9, minor |-> 0, patch |-> 1]
      [] version = "9.6.24" -> [major |-> 9, minor |-> 6, patch |-> 24]
      [] version = "10.23" -> [major |-> 10, minor |-> 23, patch |-> 0]
      [] version = "11.20" -> [major |-> 11, minor |-> 20, patch |-> 0]
      [] version = "11.21" -> [major |-> 11, minor |-> 21, patch |-> 0]
      [] version = "11.22" -> [major |-> 11, minor |-> 22, patch |-> 0]
      [] version = "12.15" -> [major |-> 12, minor |-> 15, patch |-> 0]
      [] version = "12.16" -> [major |-> 12, minor |-> 16, patch |-> 0]
      [] version = "12.17" -> [major |-> 12, minor |-> 17, patch |-> 0]
      [] version = "13.11" -> [major |-> 13, minor |-> 11, patch |-> 0]
      [] version = "13.12" -> [major |-> 13, minor |-> 12, patch |-> 0]
      [] version = "13.13" -> [major |-> 13, minor |-> 13, patch |-> 0]
      [] version = "14.8" -> [major |-> 14, minor |-> 8, patch |-> 0]
      [] version = "14.9" -> [major |-> 14, minor |-> 9, patch |-> 0]
      [] version = "14.10" -> [major |-> 14, minor |-> 10, patch |-> 0]
      [] version = "15.3" -> [major |-> 15, minor |-> 3, patch |-> 0]
      [] version = "15.4" -> [major |-> 15, minor |-> 4, patch |-> 0]
      [] version = "15.5" -> [major |-> 15, minor |-> 5, patch |-> 0]
      [] version = "15.7" -> [major |-> 15, minor |-> 7, patch |-> 0]
      [] version = "16.0" -> [major |-> 16, minor |-> 0, patch |-> 0]
      [] version = "16.1" -> [major |-> 16, minor |-> 1, patch |-> 0]
      [] version = "16.2" -> [major |-> 16, minor |-> 2, patch |-> 0]
      [] version = "16.3" -> [major |-> 16, minor |-> 3, patch |-> 0]
      [] version = "17" -> [major |-> 17, minor |-> 0, patch |-> 0]
      [] version = "17.1" -> [major |-> 17, minor |-> 1, patch |-> 0]
      [] version = "18.0" -> [major |-> 18, minor |-> 0, patch |-> 0]
      [] version = "19.0" -> [major |-> 19, minor |-> 0, patch |-> 0]

(* Version.__ge__: major, minor, patch in lexicographic order *)
VersionGe(a, b) ==
    \/ a.major > b.major
    \/ a.major = b.major /\ a.minor > b.minor
    \/ a.major = b.major /\ a.minor = b.minor /\ a.patch >= b.patch

(* A faulty variant of _is_mysql_version_supported, rejected by C20: only the
   major version is compared *)
_is_mysql_version_supported_major_only(version) ==
    LET target_version == parse_semver(version)
        supported_versions == <<parse_semver("5.7"), parse_semver("8.0"), parse_semver("8.4")>>
    IN  \E i \in DOMAIN supported_versions :
            target_version.major = supported_versions[i].major

_is_mysql_version_supported(version) ==
    LET target_version == parse_semver(version)
        supported_versions == <<parse_semver("5.7"), parse_semver("8.0"), parse_semver("8.4")>>
    IN  \E i \in DOMAIN supported_versions :
            /\ target_version.major = supported_versions[i].major
            /\ target_version.minor = supported_versions[i].minor

(* A faulty variant of _is_postgres_version_supported, rejected by C19: the
   minor version must be above the minimum, not at it *)
_is_postgres_version_supported_above(version) ==
    LET target_version == parse_semver(version)
        min_supported_versions ==
            <<parse_semver("11.21"), parse_semver("12.16"), parse_semver("13.12"),
              parse_semver("14.9"), parse_semver("15.4"), parse_semver("16.1")>>
    IN  IF VersionGe(target_version, min_supported_versions[Len(min_supported_versions)])
        THEN TRUE
        ELSE \E i \in DOMAIN min_supported_versions :
                /\ target_version.major = min_supported_versions[i].major
                /\ target_version.minor > min_supported_versions[i].minor

_is_postgres_version_supported(version) ==
    LET target_version == parse_semver(version)
        min_supported_versions ==
            <<parse_semver("11.21"), parse_semver("12.16"), parse_semver("13.12"),
              parse_semver("14.9"), parse_semver("15.4"), parse_semver("16.1")>>
    IN  IF VersionGe(target_version, min_supported_versions[Len(min_supported_versions)])
        THEN TRUE
        ELSE \E i \in DOMAIN min_supported_versions :
                /\ target_version.major = min_supported_versions[i].major
                /\ target_version.minor >= min_supported_versions[i].minor

-----------------------------------------------------------------------------
(* hooks/utils/blue_green_deployment_model.py: construction *)

(* self.config.target or BlueGreenDeploymentTarget() *)
TargetOrDefault(cfg) ==
    IF cfg.target = None THEN [f \in TargetFields |-> Unset] ELSE cfg.target

(* A faulty variant of is_blue_green_deployment_available, rejected by C34:
   the target members are not looked at *)
is_blue_green_deployment_available_status_only(m) ==
    /\ m.blue_green_deployment # None
    /\ m.blue_green_deployment.Status = "AVAILABLE"

(* A faulty variant of is_blue_green_deployment_available, rejected by C11:
   any() in place of all() *)
is_blue_green_deployment_available_any(m) ==
    /\ m.blue_green_deployment # None
    /\ m.blue_green_deployment.Status = "AVAILABLE"
    /\ \E i \in DOMAIN m.target_db_instances :
            m.target_db_instances[i].DBInstanceStatus = "available"

is_blue_green_deployment_available(m) ==
    /\ m.blue_green_deployment # None
    /\ m.blue_green_deployment.Status = "AVAILABLE"
    /\ \A i \in DOMAIN m.target_db_instances :
            m.target_db_instances[i].DBInstanceStatus = "available"

KnownStatuses ==
    {"PROVISIONING", "AVAILABLE", "SWITCHOVER_IN_PROGRESS", "SWITCHOVER_COMPLETED",
     "DELETING"}

(* A faulty variant of _init_state, rejected by C12: all() in place of any()
   over the statuses of the source instances *)
_init_state_all_deleting(m) ==
    IF m.blue_green_deployment = None
    THEN "init"
    ELSE CASE m.blue_green_deployment.Status = "PROVISIONING" -> "provisioning"
           [] m.blue_green_deployment.Status = "AVAILABLE" ->
                IF is_blue_green_deployment_available(m)
                THEN "available"
                ELSE "provisioning"
           [] m.blue_green_deployment.Status = "SWITCHOVER_IN_PROGRESS" ->
                "switchover_in_progress"
           [] m.blue_green_deployment.Status = "SWITCHOVER_COMPLETED" ->
                IF m.source_db_instances = <<>>
                THEN "source_db_instances_deleted"
                ELSE IF \A i \in DOMAIN m.source_db_instances :
                            m.source_db_instances[i].DBInstanceStatus = "deleting"
                     THEN "deleting_source_db_instances"
                     ELSE "switchover_completed"
           [] m.blue_green_deployment.Status = "DELETING" -> "deleting"

(* A faulty variant of _init_state, rejected by C7: the DELETING status is not
   matched and the state stays the INIT the manager constructs the model with *)
_init_state_deleting_unmatched(m) ==
    IF m.blue_green_deployment = None
    THEN "init"
    ELSE CASE m.blue_green_deployment.Status = "PROVISIONING" -> "provisioning"
           [] m.blue_green_deployment.Status = "AVAILABLE" ->
                IF is_blue_green_deployment_available(m)
                THEN "available"
                ELSE "provisioning"
           [] m.blue_green_deployment.Status = "SWITCHOVER_IN_PROGRESS" ->
                "switchover_in_progress"
           [] m.blue_green_deployment.Status = "SWITCHOVER_COMPLETED" ->
                IF m.source_db_instances = <<>>
                THEN "source_db_instances_deleted"
                ELSE IF \E i \in DOMAIN m.source_db_instances :
                            m.source_db_instances[i].DBInstanceStatus = "deleting"
                     THEN "deleting_source_db_instances"
                     ELSE "switchover_completed"
           [] OTHER -> "init"

(* A faulty variant of _init_state, rejected by C25: the deployment the
   service shows is not read *)
_init_state_from_scratch(m) == "init"

(* The state _init_state assigns; it raises on a status outside KnownStatuses. *)
_init_state(m) ==
    IF m.blue_green_deployment = None
    THEN "init"
    ELSE CASE m.blue_green_deployment.Status = "PROVISIONING" -> "provisioning"
           [] m.blue_green_deployment.Status = "AVAILABLE" ->
                IF is_blue_green_deployment_available(m)
                THEN "available"
                ELSE "provisioning"
           [] m.blue_green_deployment.Status = "SWITCHOVER_IN_PROGRESS" ->
                "switchover_in_progress"
           [] m.blue_green_deployment.Status = "SWITCHOVER_COMPLETED" ->
                IF m.source_db_instances = <<>>
                THEN "source_db_instances_deleted"
                ELSE IF \E i \in DOMAIN m.source_db_instances :
                            m.source_db_instances[i].DBInstanceStatus = "deleting"
                     THEN "deleting_source_db_instances"
                     ELSE "switchover_completed"
           [] m.blue_green_deployment.Status = "DELETING" -> "deleting"

_init_state_raises(m) ==
    /\ m.blue_green_deployment # None
    /\ m.blue_green_deployment.Status \notin KnownStatuses

_validate_db_instance_exist(m) == m.db_instance # None

_validate_target_parameter_group(m) ==
    ~ /\ m.config.target # None
      /\ m.config.target.parameter_group_name # Unset
      /\ m.target_db_parameter_group = None

(* A faulty variant of _validate_deletion_protection, rejected by C6: the
   validator never raises *)
_validate_deletion_protection_skipped(m) == TRUE

_validate_deletion_protection(m) ==
    ~ (m.db_instance # None /\ m.db_instance.DeletionProtection)

(* A faulty variant of _validate_backup_retention_period, rejected by C18:
   < in place of <= *)
_validate_backup_retention_period_strict(m) ==
    ~ (m.db_instance # None /\ m.db_instance.BackupRetentionPeriod < 0)

_validate_backup_retention_period(m) ==
    ~ (m.db_instance # None /\ m.db_instance.BackupRetentionPeriod <= 0)

_get_target_engine_version(m) ==
    IF m.config.target # None /\ m.config.target.engine_version # Unset
    THEN m.config.target.engine_version
    ELSE m.db_instance.EngineVersion

_validate_version_upgrade(m) ==
    _get_target_engine_version(m) \in DOMAIN m.valid_upgrade_targets

(* "" when the rule passes, else the error it raises *)
_validate_supported_engine_version(m) ==
    LET target_engine_version == _get_target_engine_version(m)
        upgrade_target == m.valid_upgrade_targets[target_engine_version]
        engine == m.db_instance.Engine
        engine_version == m.db_instance.EngineVersion
    IN  CASE engine = "postgres" ->
                IF /\ upgrade_target.IsMajorVersionUpgrade
                   /\ ~_is_postgres_version_supported(engine_version)
                THEN "postgres engine_version is not supported for blue/green deployment"
                ELSE ""
          [] engine = "mysql" ->
                IF ~_is_mysql_version_supported(engine_version)
                THEN "mysql engine_version is not supported for blue/green deployment"
                ELSE ""
          [] OTHER -> "Unsupported engine"

_validate_source_parameter_group_status(m) ==
    \A i \in DOMAIN m.db_instance.DBParameterGroups :
        m.db_instance.DBParameterGroups[i].ParameterApplyStatus = "in-sync"

(* A faulty variant of ValidationError, rejected by C13: _init_state is
   defined, and so run, after _validate_db_instance_exist *)
ValidationError_instance_first(m) ==
    IF ~_validate_db_instance_exist(m) THEN "DB Instance not found"
    ELSE IF _init_state_raises(m) THEN "Unexpected Blue/Green Deployment status"
    ELSE IF ~_validate_target_parameter_group(m) THEN "Target Parameter Group not found"
    ELSE IF ~_validate_deletion_protection(m) THEN "deletion_protection must be disabled"
    ELSE IF ~_validate_backup_retention_period(m)
         THEN "backup_retention_period must be greater than 0"
    ELSE IF ~_validate_version_upgrade(m) THEN "target engine_version is not valid"
    ELSE IF _validate_supported_engine_version(m) # ""
         THEN _validate_supported_engine_version(m)
    ELSE IF ~_validate_source_parameter_group_status(m)
         THEN "Source Parameter Group status is not in-sync"
    ELSE ""

(* The validators in the order pydantic runs them (their order in the class);
   the first that raises ends construction. "" when all pass. *)
ValidationError(m) ==
    IF _init_state_raises(m) THEN "Unexpected Blue/Green Deployment status"
    ELSE IF ~_validate_db_instance_exist(m) THEN "DB Instance not found"
    ELSE IF ~_validate_target_parameter_group(m) THEN "Target Parameter Group not found"
    ELSE IF ~_validate_deletion_protection(m) THEN "deletion_protection must be disabled"
    ELSE IF ~_validate_backup_retention_period(m)
         THEN "backup_retention_period must be greater than 0"
    ELSE IF ~_validate_version_upgrade(m) THEN "target engine_version is not valid"
    ELSE IF _validate_supported_engine_version(m) # ""
         THEN _validate_supported_engine_version(m)
    ELSE IF ~_validate_source_parameter_group_status(m)
         THEN "Source Parameter Group status is not in-sync"
    ELSE ""

(* BlueGreenDeploymentModel(...): the model with its derived state *)
BlueGreenDeploymentModel(fields) == [fields EXCEPT !.state = _init_state(fields)]

-----------------------------------------------------------------------------
(* hooks/utils/blue_green_deployment_model.py: planning *)

(* A faulty variant of _no_changes, rejected by C17: the fields that are not
   set are compared too *)
_no_changes_unfiltered(m) ==
    LET target == TargetOrDefault(m.config)
    IN  \A f \in TargetFields : target[f] = InstanceValue(m.db_instance, f)

_no_changes(m) ==
    LET target == TargetOrDefault(m.config)
    IN  \A f \in TargetFields :
            target[f] # Unset => target[f] = InstanceValue(m.db_instance, f)

(* The create action _route_init returns *)
CreateAction(m) ==
    LET target == TargetOrDefault(m.config)
    IN  [type |-> "create",
         next_state |-> "provisioning",
         payload |->
             [name |-> m.db_instance_identifier,
              source_arn |-> m.db_instance.DBInstanceArn,
              allocated_storage |-> target.allocated_storage,
              engine_version |-> target.engine_version,
              instance_class |-> target.instance_class,
              iops |-> target.iops,
              parameter_group_name |-> target.parameter_group_name,
              storage_throughput |-> target.storage_throughput,
              storage_type |-> target.storage_type,
              tags |-> m.tags]]

(* A faulty variant of _route_init, rejected by C8: `and` binds before `or`
   without the parentheses *)
_route_init_unparenthesised(m) ==
    IF (m.config.delete /\ ~m.config.switchover) \/ _no_changes(m)
    THEN [type |-> "no_op", next_state |-> "no_op"]
    ELSE CreateAction(m)

(* A faulty variant of _route_init, rejected by C40: _no_changes is not
   asked, and with switchover a deployment is created whatever the instance *)
_route_init_without_no_changes(m) ==
    IF m.config.delete /\ ~m.config.switchover
    THEN [type |-> "no_op", next_state |-> "no_op"]
    ELSE CreateAction(m)

(* A faulty variant of _route_init, rejected by C9: the delete flag is not
   read and a deployment is always created *)
_route_init_always_creates(m) == CreateAction(m)

_route_init(m) ==
    IF m.config.delete /\ (~m.config.switchover \/ _no_changes(m))
    THEN [type |-> "no_op", next_state |-> "no_op"]
    ELSE CreateAction(m)

_route_provisioning(m) ==
    [type |-> "wait_for_available", next_state |-> "available"]

(* A faulty variant of _route_available, rejected by C14: without switchover
   the deployment is left alone, also when delete is set *)
_route_available_switchover_only(m) ==
    IF m.config.switchover
    THEN [type |-> "switchover", next_state |-> "switchover_in_progress"]
    ELSE None

(* A faulty variant of _route_available, rejected by C33: without switchover
   the deployment is deleted, whatever the delete flag *)
_route_available_delete_unread(m) ==
    IF m.config.switchover
    THEN [type |-> "switchover", next_state |-> "switchover_in_progress"]
    ELSE [type |-> "delete_without_switchover", next_state |-> "deleting"]

(* A faulty variant of _route_available, rejected by C10: the delete flag is
   read before the switchover flag *)
_route_available_delete_first(m) ==
    IF m.config.delete
    THEN [type |-> "delete_without_switchover", next_state |-> "deleting"]
    ELSE IF m.config.switchover
         THEN [type |-> "switchover", next_state |-> "switchover_in_progress"]
         ELSE None

_route_available(m) ==
    IF m.config.switchover
    THEN [type |-> "switchover", next_state |-> "switchover_in_progress"]
    ELSE IF m.config.delete
         THEN [type |-> "delete_without_switchover", next_state |-> "deleting"]
         ELSE None

(* A faulty variant of _route_switchover_in_progress, rejected by C39: the
   plan stops after the switchover *)
_route_switchover_in_progress_stops(m) == None

_route_switchover_in_progress(m) ==
    [type |-> "wait_for_switchover_completed", next_state |-> "switchover_completed"]

(* A faulty variant of _route_switchover_completed, rejected by C15: the
   delete flag is not read *)
_route_switchover_completed_unconditional(m) ==
    [type |-> "delete_source_db_instance",
     next_state |-> "deleting_source_db_instances"]

(* A faulty variant of _route_switchover_completed, rejected by C2: it goes on
   to delete the deployment, which the state graph does not allow from here *)
_route_switchover_completed_to_delete(m) ==
    IF m.config.delete
    THEN [type |-> "delete", next_state |-> "deleting"]
    ELSE None

_route_switchover_completed(m) ==
    IF m.config.delete
    THEN [type |-> "delete_source_db_instance",
          next_state |-> "deleting_source_db_instances"]
    ELSE None

(* A faulty variant of _route_deleting_source_db_instances, rejected by C37:
   the plan stops once the source members are being deleted *)
_route_deleting_source_db_instances_stops(m) == None

_route_deleting_source_db_instances(m) ==
    [type |-> "wait_for_source_db_instances_deleted",
     next_state |-> "source_db_instances_deleted"]

_route_source_db_instances_deleted(m) ==
    [type |-> "delete", next_state |-> "deleting"]

_route_deleting(m) ==
    [type |-> "wait_for_deleted", next_state |-> "no_op"]

(* The allowed next states of _state_graph *)
AllowedNextStates ==
    [init |-> {"no_op", "provisioning"},
     provisioning |-> {"available"},
     available |-> {"switchover_in_progress", "deleting"},
     switchover_in_progress |-> {"switchover_completed"},
     switchover_completed |-> {"deleting_source_db_instances"},
     deleting_source_db_instances |-> {"source_db_instances_deleted"},
     source_db_instances_deleted |-> {"deleting"},
     deleting |-> {"no_op"}]

(* The routing function of _state_graph, called *)
RoutingFunc(m, state) ==
    CASE state = "init" -> _route_init(m)
      [] state = "provisioning" -> _route_provisioning(m)
      [] state = "available" -> _route_available(m)
      [] state = "switchover_in_progress" -> _route_switchover_in_progress(m)
      [] state = "switchover_completed" -> _route_switchover_completed(m)
      [] state = "deleting_source_db_instances" -> _route_deleting_source_db_instances(m)
      [] state = "source_db_instances_deleted" -> _route_source_db_instances_deleted(m)
      [] state = "deleting" -> _route_deleting(m)

(* A faulty variant of PlanLoop, rejected by C36: the loop assigns self.state
   where plan_actions assigns its local variable *)
RECURSIVE PlanLoop_assigns_state(_, _, _)
PlanLoop_assigns_state(m, state, acc) ==
    IF state = "no_op"
    THEN [raised |-> FALSE, actions |-> acc, model |-> m]
    ELSE LET action == RoutingFunc(m, state)
         IN  IF action = None
             THEN [raised |-> FALSE, actions |-> acc, model |-> m]
             ELSE IF action.next_state \notin AllowedNextStates[state]
                  THEN [raised |-> TRUE, actions |-> acc, model |-> m]
                  ELSE PlanLoop_assigns_state(
                            [m EXCEPT !.state = action.next_state],
                            action.next_state,
                            IF action.type # "no_op"
                            THEN Append(acc, action)
                            ELSE acc)

(* The while loop of plan_actions from `state` with `acc` collected so far.
   raised: the "Invalid next state" ValueError left the loop. model: self as
   the loop leaves it; the loop and the routing functions assign no
   attribute. *)
RECURSIVE PlanLoop(_, _, _)
PlanLoop(m, state, acc) ==
    IF state = "no_op"
    THEN [raised |-> FALSE, actions |-> acc, model |-> m]
    ELSE LET action == RoutingFunc(m, state)
         IN  IF action = None
             THEN [raised |-> FALSE, actions |-> acc, model |-> m]
             ELSE IF action.next_state \notin AllowedNextStates[state]
                  THEN [raised |-> TRUE, actions |-> acc, model |-> m]
                  ELSE PlanLoop(m, action.next_state,
                                IF action.type # "no_op"
                                THEN Append(acc, action)
                                ELSE acc)

(* A faulty variant of plan_actions, rejected by C35: the loop starts at init,
   not at the state of the model *)
plan_actions_from_init(m) == PlanLoop(m, "init", <<>>)

plan_actions(m) == PlanLoop(m, m.state, <<>>)

-----------------------------------------------------------------------------
(* hooks/utils/aws_api.py: the mutating calls, as the keyword arguments
   handed to the RDS client *)

(* CreateBlueGreenDeploymentParams.serialize_tags *)
RECURSIVE serialize_tags_of(_, _)
serialize_tags_of(tags, keys) ==
    IF keys = {} THEN <<>>
    ELSE LET k == CHOOSE k \in keys : TRUE
         IN  <<[Key |-> k, Value |-> tags[k]]>> \o serialize_tags_of(tags, keys \ {k})

serialize_tags(tags) ==
    IF tags = None THEN None ELSE serialize_tags_of(tags, DOMAIN tags)

(* A field of the params holds None *)
IsNoneField(params, f) ==
    IF f = "tags" THEN params[f] = None ELSE params[f] = Unset

(* A faulty variant of model_dump, rejected by C16: exclude_none is left out *)
model_dump_with_none(params) ==
    [k \in {SerializationAlias[f] : f \in DOMAIN params} |->
        LET f == CHOOSE f \in DOMAIN params : SerializationAlias[f] = k
        IN  IF f = "tags" THEN serialize_tags(params[f]) ELSE params[f]]

(* params.model_dump(by_alias=True, exclude_none=True) *)
model_dump(params) ==
    LET kept == {f \in DOMAIN params : ~IsNoneField(params, f)}
    IN  [k \in {SerializationAlias[f] : f \in kept} |->
            LET f == CHOOSE f \in kept : SerializationAlias[f] = k
            IN  IF f = "tags" THEN serialize_tags(params[f]) ELSE params[f]]

create_blue_green_deployment(params) ==
    [op |-> "create_blue_green_deployment", kwargs |-> model_dump(params)]

switchover_blue_green_deployment(identifier) ==
    [op |-> "switchover_blue_green_deployment",
     kwargs |-> [BlueGreenDeploymentIdentifier |-> identifier]]

delete_db_instance(identifier) ==
    [op |-> "delete_db_instance",
     kwargs |-> [DBInstanceIdentifier |-> identifier, SkipFinalSnapshot |-> TRUE]]

(* A faulty variant of delete_blue_green_deployment, rejected by C27:
   DeleteTarget is always sent *)
delete_blue_green_deployment_target_always(identifier, delete_target) ==
    [op |-> "delete_blue_green_deployment",
     kwargs |-> [BlueGreenDeploymentIdentifier |-> identifier,
                 DeleteTarget |-> (delete_target = "True")]]

(* delete_target: Unset, or the boolean handed over *)
delete_blue_green_deployment(identifier, delete_target) ==
    [op |-> "delete_blue_green_deployment",
     kwargs |->
        IF delete_target = Unset
        THEN [BlueGreenDeploymentIdentifier |-> identifier]
        ELSE [BlueGreenDeploymentIdentifier |-> identifier,
              DeleteTarget |-> (delete_target = "True")]]

-----------------------------------------------------------------------------
(* The inputs a pass can meet *)

MemberIndex == 1..MaxMembers

(* tests/conftest.py DEFAULT_DATA: data.tags *)
InputTags == [managed_by_integration |-> "external_resources"]

Targets ==
    {t \in [TargetFields -> UNION {TargetChoices[f] : f \in TargetFields}] :
        \A f \in TargetFields : t[f] \in TargetChoices[f]}

Configs ==
    {None} \cup
    {[enabled |-> e, switchover |-> s, delete |-> d, target |-> t] :
        e \in BOOLEAN, s \in BOOLEAN, d \in BOOLEAN, t \in Targets \cup {None}}

(* What can be wrong with the source instance and the parameter groups *)
HealthyScenario ==
    [exists |-> TRUE,
     DeletionProtection |-> FALSE,
     BackupRetentionPeriod |-> 7,
     kind |-> [Engine |-> "postgres", EngineVersion |-> "15.7"],
     ParameterApplyStatus |-> "in-sync",
     target_group_exists |-> TRUE]

Defects(sc) == Cardinality({k \in DOMAIN sc : sc[k] # HealthyScenario[k]})

Scenarios ==
    {sc \in [exists : BOOLEAN,
             DeletionProtection : BOOLEAN,
             BackupRetentionPeriod : {0, 7},
             kind : EngineKinds,
             ParameterApplyStatus : {"in-sync", "pending-reboot"},
             target_group_exists : BOOLEAN] : Defects(sc) <= MaxDefects}

ScenarioInstance(sc) ==
    IF ~sc.exists
    THEN None
    ELSE [HealthyInstance EXCEPT
            !.DeletionProtection = sc.DeletionProtection,
            !.BackupRetentionPeriod = sc.BackupRetentionPeriod,
            !.Engine = sc.kind.Engine,
            !.EngineVersion = sc.kind.EngineVersion,
            !.DBParameterGroups =
                <<[DBParameterGroupName |-> "test-rds-pg15",
                   ParameterApplyStatus |-> sc.ParameterApplyStatus]>>]

ScenarioParameterGroups(sc) ==
    IF sc.target_group_exists
    THEN {"test-rds-pg15", "test-rds-pg16"}
    ELSE {"test-rds-pg15"}

(* tests/test_blue_green_deployment_manager.py build_blue_green_deployment_response,
   with n member pairs *)
Deployment(status, n) ==
    [BlueGreenDeploymentName |-> "test-rds",
     BlueGreenDeploymentIdentifier |-> "some-bg-id",
     Status |-> status,
     SwitchoverDetails |->
        [i \in 1..n |-> [SourceMember |-> MemberId("source", i),
                         TargetMember |-> MemberId("target", i)]]]

(* Member statuses: the members beyond n do not exist *)
Members(n, statuses) ==
    {m \in [MemberIndex -> statuses \cup {"absent"}] :
        \A i \in MemberIndex : (i > n) <=> (m[i] = "absent")}

(* Statuses of the service that _init_state does not match *)
UnexpectedStatuses == {"SWITCHOVER_FAILED", "INVALID_CONFIGURATION"}

(* The deployments the service can show, with the statuses of its members *)
DeploymentScenarios ==
    {[deployment |-> None,
      sources |-> [i \in MemberIndex |-> "absent"],
      targets |-> [i \in MemberIndex |-> "absent"]]}
    \cup UNION {
        {[deployment |-> Deployment(status, n), sources |-> src, targets |-> tgt] :
            status \in {"PROVISIONING", "AVAILABLE"},
            src \in Members(n, {"available"}),
            tgt \in Members(n, {"creating", "available"})}
        \cup
        {[deployment |-> Deployment(status, n), sources |-> src, targets |-> tgt] :
            status \in {"SWITCHOVER_IN_PROGRESS"} \cup UnexpectedStatuses,
            src \in Members(n, {"available"}),
            tgt \in Members(n, {"available"})}
        \cup
        {[deployment |-> Deployment("SWITCHOVER_COMPLETED", n),
          sources |-> src, targets |-> tgt] :
            src \in {m \in [MemberIndex -> {"available", "deleting", "absent"}] :
                        \A i \in MemberIndex : i > n => m[i] = "absent"},
            tgt \in Members(n, {"available"})}
        \cup
        {[deployment |-> Deployment("DELETING", n), sources |-> src, targets |-> tgt] :
            src \in [MemberIndex -> {"absent"}],
            tgt \in Members(n, {"available"})}
        \cup
        {[deployment |-> Deployment("DELETING", n), sources |-> src, targets |-> tgt] :
            src \in Members(n, {"available"}),
            tgt \in Members(n, {"deleting"})}
        : n \in MemberIndex}

(* The deployments met together with a defect of the instance *)
BaseDeploymentScenarios ==
    {d \in DeploymentScenarios :
        \/ d.deployment = None
        \/ /\ Len(d.deployment.SwitchoverDetails) = 1
           /\ d.deployment.Status \in {"AVAILABLE"} \cup UnexpectedStatuses
           /\ d.targets[1] = "available"}

(* The green environment of a deployment created from `db_instance` with the
   overrides of `target` *)
GreenInstance(db_instance, target) ==
    LET v(f) == IF target[f] # Unset THEN target[f] ELSE InstanceValue(db_instance, f)
    IN  [db_instance EXCEPT
            !.AllocatedStorage = v("allocated_storage"),
            !.EngineVersion = v("engine_version"),
            !.DBInstanceClass = v("instance_class"),
            !.Iops = v("iops"),
            !.DBParameterGroups =
                <<[DBParameterGroupName |-> v("parameter_group_name"),
                   ParameterApplyStatus |-> "in-sync"]>>,
            !.StorageThroughput = v("storage_throughput"),
            !.StorageType = v("storage_type")]

-----------------------------------------------------------------------------
(* The state before the first invocation *)

NoPass == [actions |-> <<>>, result |-> Unset, error |-> Unset, snapshot |-> None]

(* A faulty variant of Enabled, rejected by C1: the enabled flag is not read *)
Enabled_flag_not_read == config # None

Enabled == config # None /\ config.enabled

Init ==
    /\ config \in Configs
    /\ dry_run \in BOOLEAN
    /\ \E sc \in Scenarios :
        \E d \in (IF sc = HealthyScenario /\ Enabled
                   THEN DeploymentScenarios
                   ELSE BaseDeploymentScenarios) :
            /\ rds_instance = ScenarioInstance(sc)
            /\ rds_parameter_groups = ScenarioParameterGroups(sc)
            /\ rds_deployment = d.deployment
            /\ rds_sources = d.sources
            /\ rds_targets = d.targets
            /\ rds_green =
                IF /\ d.deployment # None
                   /\ d.deployment.Status \in
                        {"PROVISIONING", "AVAILABLE", "SWITCHOVER_IN_PROGRESS"}
                   /\ sc.exists
                THEN GreenInstance(ScenarioInstance(sc),
                                   IF config = None
                                   THEN [f \in TargetFields |-> Unset]
                                   ELSE TargetOrDefault(config))
                ELSE None
    /\ pc = "start"
    /\ model = None
    /\ actions = <<>>
    /\ idx = 0
    /\ result = Unset
    /\ error = Unset
    /\ calls = <<>>
    /\ reads = {}
    /\ handled = <<>>
    /\ derived = Unset
    /\ pass = 1
    /\ prev = NoPass
    /\ snapshot = None
    /\ wait = None
    /\ exit_code = Unset
    /\ runtime = None

-----------------------------------------------------------------------------
(* hooks/utils/blue_green_deployment_manager.py: run() *)

(* run(): blue_green_deployment is absent or not enabled *)
RunNotEnabled ==
    /\ pc = "start"
    /\ ~Enabled
    /\ pc' = "done"
    /\ result' = "not_enabled"
    /\ UNCHANGED <<config, dry_run, rdsVars, model, actions, idx, error, calls,
                   reads, handled, derived, pass, prev, snapshot>>
    /\ UNCHANGED <<wait, exit_code, runtime>>

(* The arguments _build_model hands to BlueGreenDeploymentModel *)
_build_model(cfg) ==
    LET db_instance == rds_instance
        valid_upgrade_targets ==
            IF db_instance # None
            THEN get_blue_green_deployment_valid_upgrade_targets(
                    db_instance.Engine, db_instance.EngineVersion)
            ELSE [v \in {} |-> None]
        target_parameter_group_name ==
            IF cfg.target # None THEN cfg.target.parameter_group_name ELSE Unset
        target_db_parameter_group ==
            IF target_parameter_group_name # Unset
            THEN get_db_parameter_group(rds_parameter_groups, target_parameter_group_name)
            ELSE None
        blue_green_deployment == rds_deployment
    IN  [db_instance_identifier |-> "test-rds",
         state |-> "init",
         config |-> cfg,
         db_instance |-> db_instance,
         valid_upgrade_targets |-> valid_upgrade_targets,
         target_db_parameter_group |-> target_db_parameter_group,
         blue_green_deployment |-> blue_green_deployment,
         source_db_instances |->
            _fetch_source_db_instances(rds_sources, rds_targets, blue_green_deployment),
         target_db_instances |->
            _fetch_target_db_instances(rds_sources, rds_targets, blue_green_deployment),
         tags |-> InputTags]

(* The read operations _build_model calls *)
BuildReads(cfg) ==
    {"get_db_instance", "get_blue_green_deployment"}
    \cup (IF rds_instance # None
          THEN {"get_blue_green_deployment_valid_upgrade_targets"}
          ELSE {})
    \cup (IF cfg.target # None /\ cfg.target.parameter_group_name # Unset
          THEN {"get_db_parameter_group"}
          ELSE {})

(* run(): _build_model and plan_actions, up to the for loop *)
BuildModel ==
    /\ pc = "start"
    /\ Enabled
    /\ \E fields \in {_build_model(config)} :
       \E raised \in {ValidationError(fields)} :
           /\ reads' = BuildReads(config)
           /\ IF raised # ""
              THEN /\ pc' = "failed"
                   /\ error' = raised
                   /\ UNCHANGED <<model, actions, derived>>
              ELSE \E m \in {BlueGreenDeploymentModel(fields)} :
                   \E plan \in {plan_actions(m)} :
                       /\ model' = plan.model
                       /\ derived' = m.state
                       /\ IF plan.raised
                          THEN /\ pc' = "failed"
                               /\ error' = "Invalid next state"
                               /\ UNCHANGED actions
                          ELSE /\ pc' = "loop"
                               /\ actions' = plan.actions
                               /\ UNCHANGED error
    /\ snapshot' = [instance |-> rds_instance,
                    parameter_groups |-> rds_parameter_groups,
                    deployment |-> rds_deployment,
                    sources |-> rds_sources,
                    targets |-> rds_targets]
    /\ UNCHANGED <<config, dry_run, rdsVars, idx, result, calls, handled, pass, prev>>
    /\ UNCHANGED <<wait, exit_code, runtime>>

(* _build_model: a read of the service raises *)
BuildModelRaises ==
    /\ pc = "start"
    /\ Enabled
    /\ pc' = "failed"
    /\ error' = "ClientError"
    /\ reads' = {"get_db_instance"}
    /\ UNCHANGED <<config, dry_run, rdsVars, model, actions, idx, result, calls,
                   handled, derived, pass, prev, snapshot>>
    /\ UNCHANGED <<wait, exit_code, runtime>>

(* The action the for loop is at *)
InLoop == pc = "loop" /\ idx < Len(actions)

Current == actions[idx + 1]

(* handler(action) was entered: once per action, also when it polls again *)
Entered == IF Len(handled) = idx THEN Append(handled, Current.type) ELSE handled

(* A faulty variant of Advance, rejected by C3: the state is not assigned *)
Advance_state_not_assigned(m) ==
    /\ model' = m
    /\ idx' = idx + 1
    /\ handled' = Entered

(* self.model.state = action.next_state, and on to the next action *)
Advance(m) ==
    /\ model' = [m EXCEPT !.state = Current.next_state]
    /\ idx' = idx + 1
    /\ handled' = Entered

(* A faulty variant of LogAction, rejected by C4: the state is assigned in a
   dry run too *)
LogAction_assigns_state ==
    /\ InLoop
    /\ dry_run
    /\ idx' = idx + 1
    /\ model' = [model EXCEPT !.state = Current.next_state]
    /\ UNCHANGED <<config, dry_run, rdsVars, pc, actions, result, error, calls,
                   reads, handled, derived, pass, prev, snapshot>>
    /\ UNCHANGED <<wait, exit_code, runtime>>

(* A faulty variant of LogAction, rejected by C5: a dry run has the service
   start the deployment of a planned create *)
LogAction_creates ==
    /\ InLoop
    /\ dry_run
    /\ idx' = idx + 1
    /\ IF Current.type = "create" /\ rds_deployment = None
       THEN /\ rds_deployment' = Deployment("PROVISIONING", 1)
            /\ rds_sources' = [i \in MemberIndex |-> IF i <= 1 THEN "available" ELSE "absent"]
            /\ rds_targets' = [i \in MemberIndex |-> IF i <= 1 THEN "creating" ELSE "absent"]
       ELSE UNCHANGED <<rds_deployment, rds_sources, rds_targets>>
    /\ UNCHANGED <<config, dry_run, rds_instance, rds_parameter_groups, rds_green, pc,
                   model, actions, result, error, calls, reads, handled, derived, pass,
                   prev, snapshot>>
    /\ UNCHANGED <<wait, exit_code, runtime>>

(* run(): the for loop in dry-run mode only logs the action *)
LogAction ==
    /\ InLoop
    /\ dry_run
    /\ idx' = idx + 1
    /\ UNCHANGED <<config, dry_run, rdsVars, pc, model, actions, result, error, calls,
                   reads, handled, derived, pass, prev, snapshot>>
    /\ UNCHANGED <<wait, exit_code, runtime>>

(* A faulty variant of Return, rejected by C31: the state derived at
   construction is returned *)
Return_returns_derived ==
    /\ pc = "loop"
    /\ idx = Len(actions)
    /\ pc' = "done"
    /\ result' = derived
    /\ UNCHANGED <<config, dry_run, rdsVars, model, actions, idx, error, calls,
                   reads, handled, derived, pass, prev, snapshot>>
    /\ UNCHANGED <<wait, exit_code, runtime>>

(* run(): return self.model.state *)
Return ==
    /\ pc = "loop"
    /\ idx = Len(actions)
    /\ pc' = "done"
    /\ result' = model.state
    /\ UNCHANGED <<config, dry_run, rdsVars, model, actions, idx, error, calls,
                   reads, handled, derived, pass, prev, snapshot>>
    /\ UNCHANGED <<wait, exit_code, runtime>>

(* The overrides a create request carries, by target field *)
RequestedTarget(kwargs) ==
    [f \in TargetFields |->
        IF SerializationAlias[f] \in DOMAIN kwargs
        THEN kwargs[SerializationAlias[f]]
        ELSE Unset]

(* A faulty variant of Raise, rejected by C24: the error is kept and the loop
   goes on with the next action *)
Raise_swallowed(exception) ==
    /\ pc' = pc
    /\ error' = exception
    /\ handled' = Entered
    /\ idx' = idx + 1
    /\ UNCHANGED result

(* The handler raised: run() is left with the model's state as it was *)
Raise(exception) ==
    /\ pc' = "failed"
    /\ error' = exception
    /\ handled' = Entered
    /\ UNCHANGED <<idx, result>>

(* _handle_create; the service starts a deployment of the instance and of
   its replicas, or rejects the request *)
HandleCreate ==
    /\ InLoop
    /\ ~dry_run
    /\ Current.type = "create"
    /\ LET call == create_blue_green_deployment(Current.payload)
       IN  /\ calls' = Append(calls, call)
           /\ IF rds_deployment = None /\ rds_instance # None
              THEN \E n \in MemberIndex :
                    /\ rds_deployment' = Deployment("PROVISIONING", n)
                    /\ rds_sources' =
                        [i \in MemberIndex |-> IF i <= n THEN "available" ELSE "absent"]
                    /\ rds_targets' =
                        [i \in MemberIndex |-> IF i <= n THEN "creating" ELSE "absent"]
                    /\ rds_green' = GreenInstance(rds_instance, RequestedTarget(call.kwargs))
                    /\ Advance(model)
                    /\ UNCHANGED <<pc, error, result>>
              ELSE /\ Raise("BlueGreenDeploymentAlreadyExistsFault")
                   /\ UNCHANGED <<model, rds_deployment, rds_sources, rds_targets, rds_green>>
    /\ UNCHANGED <<config, dry_run, rds_instance, rds_parameter_groups, actions, reads,
                   derived, pass, prev, snapshot>>
    /\ UNCHANGED <<wait, exit_code, runtime>>

(* _handle_switchover *)
HandleSwitchover ==
    /\ InLoop
    /\ ~dry_run
    /\ Current.type = "switchover"
    /\ IF model.blue_green_deployment = None
       THEN /\ Raise("AssertionError")
            /\ UNCHANGED <<model, calls, rds_deployment>>
       ELSE /\ calls' = Append(calls, switchover_blue_green_deployment(
                        model.blue_green_deployment.BlueGreenDeploymentIdentifier))
            /\ IF rds_deployment # None /\ rds_deployment.Status = "AVAILABLE"
               THEN /\ rds_deployment' =
                        [rds_deployment EXCEPT !.Status = "SWITCHOVER_IN_PROGRESS"]
                    /\ Advance(model)
                    /\ UNCHANGED <<pc, error, result>>
               ELSE /\ Raise("InvalidBlueGreenDeploymentStateFault")
                    /\ UNCHANGED <<model, rds_deployment>>
    /\ UNCHANGED <<config, dry_run, rds_instance, rds_parameter_groups, rds_sources,
                   rds_targets, rds_green, actions, reads, derived, pass, prev,
                   snapshot>>
    /\ UNCHANGED <<wait, exit_code, runtime>>

(* The delete_db_instance calls for the first k of the instances *)
DeleteCalls(instances, k) ==
    [i \in 1..k |-> delete_db_instance(instances[i].DBInstanceIdentifier)]

(* The source members after delete_db_instance for the first k instances *)
SourcesDeleting(instances, k) ==
    [i \in MemberIndex |->
        IF \E j \in 1..k : instances[j].DBInstanceIdentifier = MemberId("source", i)
        THEN "deleting"
        ELSE rds_sources[i]]

(* _handle_delete_source_db_instance *)
HandleDeleteSourceDBInstance ==
    /\ InLoop
    /\ ~dry_run
    /\ Current.type = "delete_source_db_instance"
    /\ LET instances == _fetch_source_db_instances(
                            rds_sources, rds_targets, model.blue_green_deployment)
       IN  /\ calls' = calls \o DeleteCalls(instances, Len(instances))
           /\ rds_sources' = SourcesDeleting(instances, Len(instances))
           /\ Advance([model EXCEPT !.source_db_instances = instances])
    /\ reads' = reads \cup {"get_db_instance"}
    /\ UNCHANGED <<config, dry_run, rds_instance, rds_parameter_groups, rds_deployment,
                   rds_targets, rds_green, pc, actions, result, error, derived, pass,
                   prev, snapshot>>
    /\ UNCHANGED <<wait, exit_code, runtime>>

(* delete_blue_green_deployment as the service takes it *)
DeleteDeployment(delete_target) ==
    IF model.blue_green_deployment = None
    THEN /\ Raise("AssertionError")
         /\ UNCHANGED <<model, calls, rds_deployment, rds_targets>>
    ELSE /\ calls' = Append(calls, delete_blue_green_deployment(
                        model.blue_green_deployment.BlueGreenDeploymentIdentifier,
                        delete_target))
         /\ IF rds_deployment # None /\ rds_deployment.Status # "DELETING"
            THEN /\ rds_deployment' = [rds_deployment EXCEPT !.Status = "DELETING"]
                 /\ rds_targets' =
                        [i \in MemberIndex |->
                            IF delete_target = "True" /\ rds_targets[i] # "absent"
                            THEN "deleting"
                            ELSE rds_targets[i]]
                 /\ Advance(model)
                 /\ UNCHANGED <<pc, error, result>>
            ELSE /\ Raise("InvalidBlueGreenDeploymentStateFault")
                 /\ UNCHANGED <<model, rds_deployment, rds_targets>>

(* _handle_delete *)
HandleDelete ==
    /\ InLoop
    /\ ~dry_run
    /\ Current.type = "delete"
    /\ DeleteDeployment(Unset)
    /\ UNCHANGED <<config, dry_run, rds_instance, rds_parameter_groups, rds_sources,
                   rds_green, actions, reads, derived, pass, prev, snapshot>>
    /\ UNCHANGED <<wait, exit_code, runtime>>

(* _handle_delete_without_switchover *)
HandleDeleteWithoutSwitchover ==
    /\ InLoop
    /\ ~dry_run
    /\ Current.type = "delete_without_switchover"
    /\ DeleteDeployment("True")
    /\ UNCHANGED <<config, dry_run, rds_instance, rds_parameter_groups, rds_sources,
                   rds_green, actions, reads, derived, pass, prev, snapshot>>
    /\ UNCHANGED <<wait, exit_code, runtime>>

(* A faulty variant of Poll, rejected by C29: wait_for returns after the
   first check, whatever the condition gave *)
Poll_returns_at_once(m, condition) ==
    /\ Advance(m)
    /\ UNCHANGED <<config, dry_run, rdsVars, pc, actions, result, error, calls,
                   derived, pass, prev, snapshot>>

(* A faulty variant of Poll, rejected by C26: what the condition read is not
   kept in the model *)
Poll_discards(m, condition) ==
    /\ IF condition
       THEN Advance(model)
       ELSE /\ handled' = Entered
            /\ UNCHANGED <<model, idx>>
    /\ UNCHANGED <<config, dry_run, rdsVars, pc, actions, result, error, calls,
                   derived, pass, prev, snapshot>>

(* One check of the condition by wait_for: return when it holds, else sleep
   and check again. `m` is the model as the condition left it. *)
Poll(m, condition) ==
    /\ IF condition
       THEN Advance(m)
       ELSE /\ model' = m
            /\ handled' = Entered
            /\ UNCHANGED idx
    /\ UNCHANGED <<config, dry_run, rdsVars, pc, actions, result, error, calls,
                   derived, pass, prev, snapshot>>

(* A faulty variant of HandleWaitForAvailable, rejected by C38: the condition
   keeps what it reads in local variables and the model is not assigned *)
HandleWaitForAvailable_read_aside ==
    /\ InLoop
    /\ ~dry_run
    /\ Current.type = "wait_for_available"
    /\ LET m == [model EXCEPT
                    !.blue_green_deployment = rds_deployment,
                    !.target_db_instances =
                        _fetch_target_db_instances(rds_sources, rds_targets, rds_deployment)]
       IN  Poll(model, is_blue_green_deployment_available(m))
    /\ reads' = reads \cup {"get_blue_green_deployment", "get_db_instance"}
    /\ UNCHANGED <<wait, exit_code, runtime>>

(* _handle_wait_for_available: wait_for(_wait_for_available_condition) *)
HandleWaitForAvailable ==
    /\ InLoop
    /\ ~dry_run
    /\ Current.type = "wait_for_available"
    /\ LET m == [model EXCEPT
                    !.blue_green_deployment = rds_deployment,
                    !.target_db_instances =
                        _fetch_target_db_instances(rds_sources, rds_targets, rds_deployment)]
       IN  Poll(m, is_blue_green_deployment_available(m))
    /\ reads' = reads \cup {"get_blue_green_deployment", "get_db_instance"}
    /\ UNCHANGED <<wait, exit_code, runtime>>

(* _handle_wait_for_switchover_completed *)
HandleWaitForSwitchoverCompleted ==
    /\ InLoop
    /\ ~dry_run
    /\ Current.type = "wait_for_switchover_completed"
    /\ LET m == [model EXCEPT !.blue_green_deployment = rds_deployment]
       IN  Poll(m, /\ m.blue_green_deployment # None
                   /\ m.blue_green_deployment.Status = "SWITCHOVER_COMPLETED")
    /\ reads' = reads \cup {"get_blue_green_deployment"}
    /\ UNCHANGED <<wait, exit_code, runtime>>

(* A faulty variant of HandleWaitForSourceDBInstancesDeleted, rejected by
   C30: the wait ends when one source member is left *)
HandleWaitForSourceDBInstancesDeleted_but_one ==
    /\ InLoop
    /\ ~dry_run
    /\ Current.type = "wait_for_source_db_instances_deleted"
    /\ LET m == [model EXCEPT
                    !.source_db_instances =
                        _fetch_source_db_instances(
                            rds_sources, rds_targets, model.blue_green_deployment)]
       IN  Poll(m, Len(m.source_db_instances) <= 1)
    /\ reads' = reads \cup {"get_db_instance"}
    /\ UNCHANGED <<wait, exit_code, runtime>>

(* _handle_wait_for_source_db_instances_deleted *)
HandleWaitForSourceDBInstancesDeleted ==
    /\ InLoop
    /\ ~dry_run
    /\ Current.type = "wait_for_source_db_instances_deleted"
    /\ LET m == [model EXCEPT
                    !.source_db_instances =
                        _fetch_source_db_instances(
                            rds_sources, rds_targets, model.blue_green_deployment)]
       IN  Poll(m, Len(m.source_db_instances) = 0)
    /\ reads' = reads \cup {"get_db_instance"}
    /\ UNCHANGED <<wait, exit_code, runtime>>

(* _handle_wait_for_delete *)
HandleWaitForDeleted ==
    /\ InLoop
    /\ ~dry_run
    /\ Current.type = "wait_for_deleted"
    /\ LET m == [model EXCEPT !.blue_green_deployment = rds_deployment]
       IN  Poll(m, m.blue_green_deployment = None)
    /\ reads' = reads \cup {"get_blue_green_deployment"}
    /\ UNCHANGED <<wait, exit_code, runtime>>

(* A handler is left by an error of the service (the client raises); of
   _handle_delete_source_db_instance after k of its delete calls *)
HandlerRaises ==
    /\ InLoop
    /\ ~dry_run
    /\ LET deleting == Current.type = "delete_source_db_instance"
           instances ==
                IF deleting
                THEN _fetch_source_db_instances(
                        rds_sources, rds_targets, model.blue_green_deployment)
                ELSE <<>>
       IN  \E k \in 0..(IF Len(instances) = 0 THEN 0 ELSE Len(instances) - 1) :
            /\ calls' = calls \o DeleteCalls(instances, k)
            /\ rds_sources' = SourcesDeleting(instances, k)
            /\ model' = IF deleting
                        THEN [model EXCEPT !.source_db_instances = instances]
                        ELSE model
    /\ Raise("ClientError")
    /\ UNCHANGED <<config, dry_run, rds_instance, rds_parameter_groups, rds_deployment,
                   rds_targets, rds_green, actions, reads, derived, pass, prev,
                   snapshot>>
    /\ UNCHANGED <<wait, exit_code, runtime>>

(* The hook is invoked again, by the next stage or the next pipeline run *)
Restart ==
    /\ pc \in {"done", "failed"}
    /\ pass < MaxPasses
    /\ pass' = pass + 1
    /\ prev' = IF dry_run
                THEN [actions |-> actions, result |-> result, error |-> error,
                      snapshot |-> snapshot]
                ELSE NoPass
    /\ pc' = "start"
    /\ model' = None
    /\ actions' = <<>>
    /\ idx' = 0
    /\ result' = Unset
    /\ error' = Unset
    /\ calls' = <<>>
    /\ reads' = {}
    /\ handled' = <<>>
    /\ derived' = Unset
    /\ snapshot' = None
    /\ UNCHANGED <<config, dry_run, rdsVars>>
    /\ UNCHANGED <<wait, exit_code, runtime>>

-----------------------------------------------------------------------------
(* The RDS service makes progress on what was requested *)

(* The manager tells the members of a deployment apart by nothing but their
   place in SwitchoverDetails: the service finishes them in that order. *)
First(members, status) ==
    CHOOSE i \in MemberIndex :
        /\ members[i] = status
        /\ \A j \in MemberIndex : members[j] = status => i <= j

Some(members, status) == \E i \in MemberIndex : members[i] = status

progVars == <<config, dry_run, pc, model, actions, idx, result, error, calls, reads,
              handled, derived, pass, prev, snapshot>>

(* The service is read by a handler of a pass that is not a dry run and by the
   _build_model of the next invocation: its steps are taken where one of them
   can see the difference. *)
Observed ==
    \/ InLoop /\ ~dry_run
    \/ pc \in {"done", "failed"} /\ pass < MaxPasses

RdsTargetAvailable ==
    /\ Observed
    /\ rds_deployment # None
    /\ rds_deployment.Status \in {"PROVISIONING", "AVAILABLE"}
    /\ Some(rds_targets, "creating")
    /\ rds_targets' = [rds_targets EXCEPT ![First(rds_targets, "creating")] = "available"]
    /\ UNCHANGED <<progVars, rds_instance, rds_parameter_groups, rds_deployment,
                   rds_sources, rds_green>>
    /\ UNCHANGED <<wait, exit_code, runtime>>

RdsProvisioned ==
    /\ Observed
    /\ rds_deployment # None
    /\ rds_deployment.Status = "PROVISIONING"
    /\ rds_deployment' = [rds_deployment EXCEPT !.Status = "AVAILABLE"]
    /\ UNCHANGED <<progVars, rds_instance, rds_parameter_groups, rds_sources,
                   rds_targets, rds_green>>
    /\ UNCHANGED <<wait, exit_code, runtime>>

(* The green instance takes the place of the instance named by the identifier *)
RdsSwitchoverCompleted ==
    /\ Observed
    /\ rds_deployment # None
    /\ rds_deployment.Status = "SWITCHOVER_IN_PROGRESS"
    /\ rds_deployment' = [rds_deployment EXCEPT !.Status = "SWITCHOVER_COMPLETED"]
    /\ rds_instance' = IF rds_green = None THEN rds_instance ELSE rds_green
    /\ rds_green' = None
    /\ UNCHANGED <<progVars, rds_parameter_groups, rds_sources, rds_targets>>
    /\ UNCHANGED <<wait, exit_code, runtime>>

RdsSourceDeleted ==
    /\ Observed
    /\ Some(rds_sources, "deleting")
    /\ rds_sources' = [rds_sources EXCEPT ![First(rds_sources, "deleting")] = "absent"]
    /\ UNCHANGED <<progVars, rds_instance, rds_parameter_groups, rds_deployment,
                   rds_targets, rds_green>>
    /\ UNCHANGED <<wait, exit_code, runtime>>

RdsTargetDeleted ==
    /\ Observed
    /\ Some(rds_targets, "deleting")
    /\ rds_targets' = [rds_targets EXCEPT ![First(rds_targets, "deleting")] = "absent"]
    /\ UNCHANGED <<progVars, rds_instance, rds_parameter_groups, rds_deployment,
                   rds_sources, rds_green>>
    /\ UNCHANGED <<wait, exit_code, runtime>>

RdsDeploymentDeleted ==
    /\ Observed
    /\ rds_deployment # None
    /\ rds_deployment.Status = "DELETING"
    /\ rds_deployment' = None
    /\ rds_green' = None
    /\ UNCHANGED <<progVars, rds_instance, rds_parameter_groups, rds_sources, rds_targets>>
    /\ UNCHANGED <<wait, exit_code, runtime>>

-----------------------------------------------------------------------------

Next ==
    \/ RunNotEnabled
    \/ BuildModel
    \/ BuildModelRaises
    \/ LogAction
    \/ Return
    \/ HandleCreate
    \/ HandleWaitForAvailable
    \/ HandleSwitchover
    \/ HandleWaitForSwitchoverCompleted
    \/ HandleDeleteSourceDBInstance
    \/ HandleWaitForSourceDBInstancesDeleted
    \/ HandleDelete
    \/ HandleDeleteWithoutSwitchover
    \/ HandleWaitForDeleted
    \/ HandlerRaises
    \/ Restart
    \/ RdsTargetAvailable
    \/ RdsProvisioned
    \/ RdsSwitchoverCompleted
    \/ RdsSourceDeleted
    \/ RdsTargetDeleted
    \/ RdsDeploymentDeleted

Spec == Init /\ [][Next]_vars

-----------------------------------------------------------------------------
(* BlueGreenDeploymentModel constructed from given arguments, over more
   targets and engine versions than the service above offers *)

(* The values a target field is given: unset, the live value, another one *)
WideTargetChoices ==
    [allocated_storage : {Unset, "20", "50"},
     engine_version : {Unset, "15.7", "16.3"},
     instance_class : {Unset, "db.t4g.micro", "db.m5.large"},
     iops : {Unset, "3000", "6000"},
     parameter_group_name : {Unset, "test-rds-pg15", "test-rds-pg16"},
     storage_throughput : {Unset, "125", "250"},
     storage_type : {Unset, "gp3", "io1"}]

(* The arguments _build_model would hand over for the healthy instance and
   the configuration `cfg`, with the tags of the input *)
TargetArguments ==
    {[db_instance_identifier |-> "test-rds",
      state |-> "init",
      config |-> [enabled |-> TRUE, switchover |-> s, delete |-> d, target |-> t],
      db_instance |-> HealthyInstance,
      valid_upgrade_targets |->
          get_blue_green_deployment_valid_upgrade_targets(
              HealthyInstance.Engine, HealthyInstance.EngineVersion),
      target_db_parameter_group |->
          IF t # None /\ t.parameter_group_name # Unset
          THEN get_db_parameter_group({"test-rds-pg15", "test-rds-pg16"},
                                      t.parameter_group_name)
          ELSE None,
      blue_green_deployment |-> None,
      source_db_instances |-> <<>>,
      target_db_instances |-> <<>>,
      tags |-> tags] :
        s \in BOOLEAN, d \in BOOLEAN, t \in WideTargetChoices \cup {None},
        tags \in {None, InputTags}}

(* The engine versions an instance is given *)
EngineVersions ==
    [postgres |-> {"9.6.24", "10.23", "11.20", "11.21", "11.22", "12.15", "12.16",
                   "12.17", "13.11", "13.12", "13.13", "14.8", "14.9", "14.10",
                   "15.3", "15.4", "15.5", "16.0", "16.1", "16.2", "17", "17.1"},
     mysql |-> {"5.5.1", "5.6.2", "5.7", "5.7.44", "8.0", "8.0.32", "8.1.0", "8.3.0",
                "8.4", "8.4.3", "9.0.1"}]

(* The target version of an upgrade *)
UpgradeTo == [postgres |-> "18.0", mysql |-> "8.4.4"]

(* The arguments for an instance of an engine and version, with the target
   version among the valid upgrade targets as a major or a minor upgrade *)
VersionArguments ==
    {[db_instance_identifier |-> "test-rds",
      state |-> "init",
      config |-> [enabled |-> TRUE, switchover |-> TRUE, delete |-> FALSE,
                  target |-> [[f \in TargetFields |-> Unset] EXCEPT
                                  !.engine_version = UpgradeTo[e]]],
      db_instance |-> [HealthyInstance EXCEPT !.Engine = e, !.EngineVersion = v],
      valid_upgrade_targets |->
          [t \in {UpgradeTo[e]} |->
              [Engine |-> e, EngineVersion |-> t, IsMajorVersionUpgrade |-> major]],
      target_db_parameter_group |-> None,
      blue_green_deployment |-> None,
      source_db_instances |-> <<>>,
      target_db_instances |-> <<>>,
      tags |-> InputTags] :
        e \in {"postgres"}, v \in EngineVersions.postgres, major \in BOOLEAN}
    \cup
    {[db_instance_identifier |-> "test-rds",
      state |-> "init",
      config |-> [enabled |-> TRUE, switchover |-> TRUE, delete |-> FALSE,
                  target |-> [[f \in TargetFields |-> Unset] EXCEPT
                                  !.engine_version = UpgradeTo[e]]],
      db_instance |-> [HealthyInstance EXCEPT !.Engine = e, !.EngineVersion = v],
      valid_upgrade_targets |->
          [t \in {UpgradeTo[e]} |->
              [Engine |-> e, EngineVersion |-> t, IsMajorVersionUpgrade |-> major]],
      target_db_parameter_group |-> None,
      blue_green_deployment |-> None,
      source_db_instances |-> <<>>,
      target_db_instances |-> <<>>,
      tags |-> InputTags] :
        e \in {"mysql"}, v \in EngineVersions.mysql, major \in BOOLEAN}

ModelArguments == TargetArguments \cup VersionArguments

(* The arguments are given and the service holds the instance, no deployment *)
InitModel ==
    /\ snapshot \in ModelArguments
    /\ config = snapshot.config
    /\ dry_run = FALSE
    /\ rds_instance = snapshot.db_instance
    /\ rds_parameter_groups = {"test-rds-pg15", "test-rds-pg16"}
    /\ rds_deployment = None
    /\ rds_sources = [i \in MemberIndex |-> "absent"]
    /\ rds_targets = [i \in MemberIndex |-> "absent"]
    /\ rds_green = None
    /\ pc = "start"
    /\ model = None
    /\ actions = <<>>
    /\ idx = 0
    /\ result = Unset
    /\ error = Unset
    /\ calls = <<>>
    /\ reads = {}
    /\ handled = <<>>
    /\ derived = Unset
    /\ pass = 1
    /\ prev = NoPass
    /\ wait = None
    /\ exit_code = Unset
    /\ runtime = None

(* BlueGreenDeploymentModel constructed from the arguments, then plan_actions() *)
ConstructModel ==
    /\ pc = "start"
    /\ snapshot # None
    /\ LET raised == ValidationError(snapshot)
       IN  IF raised # ""
           THEN /\ pc' = "failed"
                /\ error' = raised
                /\ UNCHANGED <<model, actions, derived>>
           ELSE LET m == BlueGreenDeploymentModel(snapshot)
                    plan == plan_actions(m)
                IN  /\ model' = plan.model
                    /\ derived' = m.state
                    /\ IF plan.raised
                       THEN /\ pc' = "failed"
                            /\ error' = "Invalid next state"
                            /\ UNCHANGED actions
                       ELSE /\ pc' = "loop"
                            /\ actions' = plan.actions
                            /\ UNCHANGED error
    /\ UNCHANGED <<config, dry_run, rdsVars, idx, result, calls, reads, handled, pass,
                   prev, snapshot>>
    /\ UNCHANGED <<wait, exit_code, runtime>>

NextModel ==
    \/ ConstructModel
    \/ HandleCreate

ModelSpec == InitModel /\ [][NextModel]_vars

-----------------------------------------------------------------------------
(* hooks/pre_run.py: main, which runs the manager and exits *)

(* The members of State that main matches and hooks/utils/models.py does not
   list; the manager returns neither *)
LaterStates == {"replica_source_enabled", "pending_prepare"}

(* A faulty variant of ExitStatus, rejected by C23: a state is missing from
   the second case, and main returns without sys.exit *)
ExitStatus_state_missing(state) ==
    CASE state \in {"not_enabled", "no_op"} -> "EXIT_OK"
      [] state \in {"init", "replica_source_enabled", "provisioning", "available",
                    "switchover_in_progress", "switchover_completed",
                    "source_db_instances_deleted", "deleting"} -> "EXIT_SKIP"
      [] state = "pending_prepare" -> "EXIT_OK"
      [] OTHER -> Unset

(* match state: the status main exits with; Unset when no case matches and
   main returns *)
ExitStatus(state) ==
    CASE state \in {"not_enabled", "no_op"} -> "EXIT_OK"
      [] state \in {"init", "replica_source_enabled", "provisioning", "available",
                    "switchover_in_progress", "switchover_completed",
                    "deleting_source_db_instances", "source_db_instances_deleted",
                    "deleting"} -> "EXIT_SKIP"
      [] state = "pending_prepare" -> "EXIT_OK"
      [] OTHER -> Unset

(* main, once manager.run() has returned or raised *)
main ==
    /\ pc \in {"done", "failed"}
    /\ exit_code' = IF pc = "failed" THEN "EXIT_ERROR" ELSE ExitStatus(result)
    /\ pc' = "exit"
    /\ UNCHANGED <<config, dry_run, rdsVars, model, actions, idx, result, error, calls,
                   reads, handled, derived, pass, prev, snapshot, wait, runtime>>

NextHook ==
    \/ Next
    \/ main

HookSpec == Init /\ [][NextHook]_vars

-----------------------------------------------------------------------------
(* hooks/utils/wait.py: wait_for(condition, logger, timeout, interval), with the
   clock behind time.time() and time.sleep() counted in ticks *)

(* All variables but the frame of wait_for *)
runVars == <<config, dry_run, rdsVars, pc, model, actions, idx, result, error, calls,
             reads, handled, derived, pass, prev, snapshot, exit_code, runtime>>

(* timeout: int | None *)
Timeouts == {None} \cup {[seconds |-> n] : n \in 0..MaxTimeout}

(* condition: what the callable returns at its first, second, ... call *)
Conditions == [1..MaxChecks -> BOOLEAN]

(* wait_for is called *)
InitWait ==
    /\ \E timeout \in Timeouts, interval \in 1..MaxInterval, condition \in Conditions :
          wait = [pc |-> "start",
                  timeout |-> timeout,
                  interval |-> interval,
                  condition |-> condition,
                  now |-> 0,
                  start_time |-> 0,
                  checks |-> <<>>,
                  sleeps |-> <<>>]
    /\ config = None
    /\ dry_run = FALSE
    /\ rds_instance = None
    /\ rds_parameter_groups = {}
    /\ rds_deployment = None
    /\ rds_sources = [i \in MemberIndex |-> "absent"]
    /\ rds_targets = [i \in MemberIndex |-> "absent"]
    /\ rds_green = None
    /\ pc = "start"
    /\ model = None
    /\ actions = <<>>
    /\ idx = 0
    /\ result = Unset
    /\ error = Unset
    /\ calls = <<>>
    /\ reads = {}
    /\ handled = <<>>
    /\ derived = Unset
    /\ pass = 1
    /\ prev = NoPass
    /\ snapshot = None
    /\ exit_code = Unset
    /\ runtime = None

(* int(time.time() - start_time) *)
Elapsed(start_time, now) == (now - start_time) \div Resolution

(* A faulty variant of TimedOut, rejected by C21: the timeout has to be
   exceeded *)
TimedOut_exceeded(timeout, elapsed) ==
    timeout # None /\ elapsed > timeout.seconds

(* timeout is not None and elapsed >= timeout *)
TimedOut(timeout, elapsed) ==
    timeout # None /\ elapsed >= timeout.seconds

(* A faulty variant of wait_for_start, rejected by C22: the loop sleeps before
   it checks *)
wait_for_start_sleeps_first ==
    /\ wait # None
    /\ wait.pc = "start"
    /\ wait' = [wait EXCEPT !.pc = "sleep", !.start_time = wait.now]
    /\ UNCHANGED runVars

(* start_time = time.time() *)
wait_for_start ==
    /\ wait # None
    /\ wait.pc = "start"
    /\ wait' = [wait EXCEPT !.pc = "check", !.start_time = wait.now]
    /\ UNCHANGED runVars

(* while not condition(): the condition is called, which takes some time; if
   it is not met the time is read and compared with the timeout *)
wait_for_check ==
    /\ wait # None
    /\ wait.pc = "check"
    /\ Len(wait.checks) < MaxChecks
    /\ \E latency \in 0..MaxLatency :
          LET now == wait.now + latency
              met == wait.condition[Len(wait.checks) + 1]
              elapsed == Elapsed(wait.start_time, now)
          IN  wait' = [wait EXCEPT
                          !.now = now,
                          !.checks = Append(@, [met |-> met, at |-> now]),
                          !.pc = IF met THEN "returned"
                                 ELSE IF TimedOut(wait.timeout, elapsed)
                                      THEN "TimeoutError"
                                      ELSE "sleep"]
    /\ UNCHANGED runVars

(* time.sleep(interval): at least the interval passes *)
wait_for_sleep ==
    /\ wait # None
    /\ wait.pc = "sleep"
    /\ \E late \in 0..MaxLatency :
          wait' = [wait EXCEPT
                      !.now = @ + wait.interval * Resolution + late,
                      !.sleeps = Append(@, wait.interval),
                      !.pc = "check"]
    /\ UNCHANGED runVars

NextWait ==
    \/ wait_for_start
    \/ wait_for_check
    \/ wait_for_sleep

(* The process runs: wait_for is not suspended for ever *)
WaitSpec == InitWait /\ [][NextWait]_vars /\ WF_vars(NextWait)

-----------------------------------------------------------------------------
(* hooks/utils/runtime.py and hooks/post_run.py: the rerun marker *)

(* The values of the environment variable WORK: not set, empty, or the path
   of a directory *)
WorkValues == {Unset, "", "/work/a", "/work/b"}

(* _get_rerun_marker_path: the path, or the ValueError it raises *)
_get_rerun_marker_path(workdir) ==
    IF workdir = Unset \/ workdir = ""
    THEN [raised |-> "ValueError", path |-> <<>>]
    ELSE [raised |-> Unset, path |-> <<workdir, "rerun">>]

(* A faulty variant of touch, rejected by C32: exist_ok is false *)
touch_exclusive(files, path) ==
    IF path \in files
    THEN [raised |-> "FileExistsError", files |-> files]
    ELSE [raised |-> Unset, files |-> files \cup {path}]

(* Path.touch(exist_ok=True) *)
touch(files, path) == [raised |-> Unset, files |-> files \cup {path}]

(* Path.exists() *)
exists(files, path) == path \in files

(* One call, as the log keeps it *)
HookCall(op, outcome) == [op |-> op, WORK |-> runtime.WORK, outcome |-> outcome]

(* No marker in any directory, no call made *)
InitRuntime ==
    /\ runtime \in [WORK : WorkValues, files : {{}}, log : {<<>>}]
    /\ config = None
    /\ dry_run = FALSE
    /\ rds_instance = None
    /\ rds_parameter_groups = {}
    /\ rds_deployment = None
    /\ rds_sources = [i \in MemberIndex |-> "absent"]
    /\ rds_targets = [i \in MemberIndex |-> "absent"]
    /\ rds_green = None
    /\ pc = "start"
    /\ model = None
    /\ actions = <<>>
    /\ idx = 0
    /\ result = Unset
    /\ error = Unset
    /\ calls = <<>>
    /\ reads = {}
    /\ handled = <<>>
    /\ derived = Unset
    /\ pass = 1
    /\ prev = NoPass
    /\ snapshot = None
    /\ wait = None
    /\ exit_code = Unset

(* All variables but runtime *)
hookVars == <<config, dry_run, rdsVars, pc, model, actions, idx, result, error, calls,
              reads, handled, derived, pass, prev, snapshot, wait, exit_code>>

(* The next hook runs in the environment of another job, or of the same *)
setenv ==
    /\ \E workdir \in WorkValues : runtime' = [runtime EXCEPT !.WORK = workdir]
    /\ UNCHANGED hookVars

(* mark_rerun() *)
mark_rerun ==
    /\ Len(runtime.log) < MaxHookCalls
    /\ LET marker == _get_rerun_marker_path(runtime.WORK)
       IN  IF marker.raised # Unset
           THEN runtime' = [runtime EXCEPT
                                !.log = Append(@, HookCall("mark_rerun", marker.raised))]
           ELSE LET touched == touch(runtime.files, marker.path)
                IN  runtime' = [runtime EXCEPT
                                    !.files = touched.files,
                                    !.log = Append(@, HookCall("mark_rerun",
                                                IF touched.raised # Unset
                                                THEN touched.raised
                                                ELSE "returned"))]
    /\ UNCHANGED hookVars

(* What should_rerun() gives: "True", "False" or the error it raises *)
should_rerun_outcome ==
    LET marker == _get_rerun_marker_path(runtime.WORK)
    IN  IF marker.raised # Unset
        THEN marker.raised
        ELSE IF exists(runtime.files, marker.path) THEN "True" ELSE "False"

(* should_rerun() *)
should_rerun ==
    /\ Len(runtime.log) < MaxHookCalls
    /\ runtime' = [runtime EXCEPT
                        !.log = Append(@, HookCall("should_rerun", should_rerun_outcome))]
    /\ UNCHANGED hookVars

(* hooks/post_run.py main(): the exit status; the error of should_rerun is
   not caught and leaves the process *)
post_run ==
    /\ Len(runtime.log) < MaxHookCalls
    /\ runtime' = [runtime EXCEPT
                        !.log = Append(@, HookCall("post_run",
                                    CASE should_rerun_outcome = "True" -> "EXIT_ERROR"
                                      [] should_rerun_outcome = "False" -> "EXIT_OK"
                                      [] OTHER -> should_rerun_outcome))]
    /\ UNCHANGED hookVars

NextRuntime ==
    \/ setenv
    \/ mark_rerun
    \/ should_rerun
    \/ post_run

RuntimeSpec == InitRuntime /\ [][NextRuntime]_vars

-----------------------------------------------------------------------------
(* hooks/utils/blue_green_deployment_manager.py: run(), left between two of
   its actions and invoked again with the same input *)

(* The service answers every request of _build_model, the instance passes the
   validators, the pass is not a dry run, and the target asks for another
   engine version or for nothing *)
InitRerun ==
    /\ Init
    /\ Enabled
    /\ ~dry_run
    /\ config.target # None
    /\ \A f \in TargetFields \ {"engine_version"} : config.target[f] = Unset
    /\ rds_instance = ScenarioInstance(HealthyScenario)
    /\ rds_parameter_groups = ScenarioParameterGroups(HealthyScenario)

(* run() is left where the handler of the next action is entered, before a
   call of it reached the service; another invocation follows *)
Interrupt ==
    /\ pass < MaxPasses
    /\ HandlerRaises
    /\ calls' = calls

(* The hook is invoked again after the pass was left: no field of the manager
   and of its model outlives the process *)
Reinvoke ==
    /\ pc = "failed"
    /\ error = "ClientError"
    /\ pass < MaxPasses
    /\ pass' = pass + 1
    /\ prev' = [actions |-> actions, result |-> result, error |-> error,
                snapshot |-> snapshot]
    /\ pc' = "start"
    /\ model' = None
    /\ actions' = <<>>
    /\ idx' = 0
    /\ result' = Unset
    /\ error' = Unset
    /\ calls' = <<>>
    /\ reads' = {}
    /\ handled' = <<>>
    /\ derived' = Unset
    /\ snapshot' = None
    /\ UNCHANGED <<config, dry_run, rdsVars>>
    /\ UNCHANGED <<wait, exit_code, runtime>>

(* The steps of the process *)
RunStep ==
    \/ BuildModel
    \/ Return
    \/ HandleCreate
    \/ HandleWaitForAvailable
    \/ HandleSwitchover
    \/ HandleWaitForSwitchoverCompleted
    \/ HandleDeleteSourceDBInstance
    \/ HandleWaitForSourceDBInstancesDeleted
    \/ HandleDelete
    \/ HandleDeleteWithoutSwitchover
    \/ HandleWaitForDeleted
    \/ Reinvoke

(* The steps of the service *)
RdsStep ==
    \/ RdsTargetAvailable
    \/ RdsProvisioned
    \/ RdsSwitchoverCompleted
    \/ RdsSourceDeleted
    \/ RdsTargetDeleted
    \/ RdsDeploymentDeleted

NextRerun ==
    \/ RunStep
    \/ Interrupt
    \/ RdsStep

(* The process is not suspended for ever, the pipeline invokes the hook again
   after a failure, and the service completes what was requested of it *)
RerunSpec ==
    /\ InitRerun
    /\ [][NextRerun]_vars
    /\ WF_vars(RunStep)
    /\ WF_vars(RdsStep)

-----------------------------------------------------------------------------
(* hooks/pre_run.py: the hook invoked again after a pass that returned *)

(* The hook is invoked again with the same input after run() returned: no
   field of the manager and of its model outlives the process *)
InvokeAgain ==
    /\ pc = "done"
    /\ pass < MaxPasses
    /\ pass' = pass + 1
    /\ prev' = [actions |-> actions, result |-> result, error |-> error,
                snapshot |-> snapshot]
    /\ pc' = "start"
    /\ model' = None
    /\ actions' = <<>>
    /\ idx' = 0
    /\ result' = Unset
    /\ error' = Unset
    /\ calls' = <<>>
    /\ reads' = {}
    /\ handled' = <<>>
    /\ derived' = Unset
    /\ snapshot' = None
    /\ UNCHANGED <<config, dry_run, rdsVars>>
    /\ UNCHANGED <<wait, exit_code, runtime>>

NextLifecycle ==
    \/ RunStep
    \/ Interrupt
    \/ RdsStep
    \/ InvokeAgain

LifecycleSpec == InitRerun /\ [][NextLifecycle]_vars

-----------------------------------------------------------------------------
(* Properties *)

Built == model # None

HasAction(type) == \E i \in DOMAIN actions : actions[i].type = type

HasCall(op) == \E i \in DOMAIN calls : calls[i].op = op

(* The service as it is now, in the shape of a snapshot *)
ServiceNow ==
    [instance |-> rds_instance,
     parameter_groups |-> rds_parameter_groups,
     deployment |-> rds_deployment,
     sources |-> rds_sources,
     targets |-> rds_targets]

(* C1: when blue_green_deployment is absent or enabled is false, run()
   returns not_enabled and calls no operation of AWSApi, neither a read nor a
   mutating one, in dry-run and in non-dry-run mode. *)
C1_NotEnabledNoCalls ==
    (config = None \/ ~config.enabled) =>
        /\ calls = <<>>
        /\ reads = {}
        /\ model = None
        /\ pc \in {"start", "done"}
        /\ pc = "done" => result = "not_enabled"

C1_Witness ==
    /\ config # None
    /\ ~config.enabled
    /\ config.switchover
    /\ config.delete
    /\ ~dry_run
    /\ rds_deployment # None
    /\ pc = "done"
    /\ pass = 2

(* The state the i-th planned action was routed from *)
RoutedFrom(i) == IF i = 1 THEN derived ELSE actions[i - 1].next_state

(* C2: for every derived state and every combination of switchover, delete
   and target, each action plan_actions returns has a next_state in the
   allowed next states of the state it was routed from, and the "Invalid next
   state" error is never raised. *)
C2_PlanWithinStateGraph ==
    /\ error # "Invalid next state"
    /\ \A i \in DOMAIN actions :
            actions[i].next_state \in AllowedNextStates[RoutedFrom(i)]

C2_Witness ==
    /\ pc = "loop"
    /\ derived = "switchover_completed"
    /\ Len(actions) = 4

(* C3: in a pass that is not a dry run the handlers are entered in the order
   of the planned actions, at most one handler has been entered and not yet
   left, and the model's state is the next_state of the last handler that
   returned (the derived state when none has); a handler that raised has left
   the state as it was. *)
C3_HandlersInOrder ==
    (Built /\ ~dry_run) =>
        /\ Len(handled) \in {idx, idx + 1}
        /\ Len(handled) <= Len(actions)
        /\ \A i \in DOMAIN handled : handled[i] = actions[i].type
        /\ model.state = IF idx = 0 THEN derived ELSE actions[idx].next_state

C3_Witness ==
    /\ ~dry_run
    /\ pc = "failed"
    /\ error = "ClientError"
    /\ idx = 2
    /\ Len(handled) = 3
    /\ model.state = "available"

(* C4: a dry run issues no mutating call (create, switchover, delete
   instance, delete deployment), enters no wait, and returns the state derived
   at construction, whatever the plan holds. *)
C4_DryRunNoMutation ==
    dry_run =>
        /\ calls = <<>>
        /\ handled = <<>>
        /\ Built => model.state = derived
        /\ (Built /\ pc = "done") => result = derived

C4_Witness ==
    /\ dry_run
    /\ pc = "done"
    /\ Len(actions) = 8
    /\ result = "init"

(* C5: two dry runs with the same configuration that read the same snapshot
   of the service plan the same actions and return the same state, and a dry
   run leaves the service as its snapshot showed it, so the first changes
   nothing the second reads. *)
C5_DryRunIdempotent ==
    dry_run =>
        /\ (snapshot # None /\ pc = "loop") => ServiceNow = snapshot
        /\ (snapshot # None /\ prev.snapshot = snapshot /\ pc \in {"loop", "done"}) =>
                /\ prev.actions = actions
                /\ (pc = "done" /\ prev.result # Unset) => result = prev.result

C5_Witness ==
    /\ dry_run
    /\ pass = 2
    /\ pc = "done"
    /\ prev.snapshot = snapshot
    /\ Len(actions) = 8
    /\ prev.result = "init"

(* The errors BlueGreenDeploymentModel raises at construction *)
ConstructionErrors ==
    {"Unexpected Blue/Green Deployment status",
     "DB Instance not found",
     "Target Parameter Group not found",
     "deletion_protection must be disabled",
     "backup_retention_period must be greater than 0",
     "target engine_version is not valid",
     "postgres engine_version is not supported for blue/green deployment",
     "mysql engine_version is not supported for blue/green deployment",
     "Unsupported engine",
     "Source Parameter Group status is not in-sync"}

(* What the snapshot read at construction shows to be wrong: the instance is
   missing, the deployment has an unexpected status, the target parameter
   group is missing, deletion protection is on, backups are off, a source
   parameter group is not in-sync, the engine is not one of the two handled,
   or the target version is neither on offer nor an upgrade target. *)
SnapshotDefect ==
    LET i == snapshot.instance
        d == snapshot.deployment
        version == IF config.target # None /\ config.target.engine_version # Unset
                   THEN config.target.engine_version
                   ELSE i.EngineVersion
    IN  \/ i = None
        \/ d # None /\ d.Status \notin KnownStatuses
        \/ /\ config.target # None
           /\ config.target.parameter_group_name # Unset
           /\ config.target.parameter_group_name \notin snapshot.parameter_groups
        \/ /\ i # None
           /\ \/ i.DeletionProtection
              \/ i.BackupRetentionPeriod <= 0
              \/ \E g \in DOMAIN i.DBParameterGroups :
                    i.DBParameterGroups[g].ParameterApplyStatus # "in-sync"
              \/ i.Engine \notin {"postgres", "mysql"}
              \/ version \notin RdsEngineVersions(i.Engine)
              \/ /\ version # i.EngineVersion
                 /\ \A t \in RdsValidUpgradeTarget(i.Engine, i.EngineVersion) :
                        t.EngineVersion # version

(* C6: when the construction of the model fails (missing instance, missing
   target parameter group, deletion protection, backup retention, invalid
   target version, unsupported engine version, parameter group not in-sync,
   unexpected status) the pass has made no mutating call, has planned no
   action and entered no handler, and ends with the error instead of a
   result; and each of these defects of the snapshot does fail it. *)
C6_ConstructionFailureNoEffect ==
    /\ (pc = "failed" /\ error \in ConstructionErrors) =>
            /\ model = None
            /\ actions = <<>>
            /\ calls = <<>>
            /\ handled = <<>>
            /\ idx = 0
            /\ result = Unset
    /\ (snapshot # None /\ SnapshotDefect) =>
            /\ pc = "failed"
            /\ error \in ConstructionErrors

C6_Witness ==
    /\ pc = "failed"
    /\ error = "deletion_protection must be disabled"
    /\ ~dry_run
    /\ config.switchover
    /\ config.delete
    /\ snapshot.deployment = None

(* C7: a create action is in the plan, and create_blue_green_deployment is
   called, only when the snapshot read at construction holds no deployment
   (the derived state is init), and then once; with a deployment of any
   status in the snapshot the plan holds no create. This holds in every
   invocation, whatever the service did in between. *)
C7_CreateOnlyWithoutDeployment ==
    /\ HasAction("create") =>
            /\ snapshot.deployment = None
            /\ derived = "init"
    /\ HasCall("create_blue_green_deployment") =>
            /\ snapshot.deployment = None
            /\ Cardinality({i \in DOMAIN calls :
                                calls[i].op = "create_blue_green_deployment"}) = 1

C7_Witness ==
    /\ pass = 2
    /\ HasCall("create_blue_green_deployment")
    /\ rds_deployment # None
    /\ rds_deployment.Status = "AVAILABLE"

(* C8: from the derived state init the plan is empty exactly when delete is
   true and (switchover is false or _no_changes() is true); otherwise its
   first action is a create with next_state provisioning and it holds no
   other create. *)
C8_RouteInit ==
    (Built /\ derived = "init") =>
        IF config.delete /\ (~config.switchover \/ _no_changes(model))
        THEN actions = <<>>
        ELSE /\ Len(actions) >= 1
             /\ actions[1].type = "create"
             /\ actions[1].next_state = "provisioning"
             /\ \A i \in DOMAIN actions : actions[i].type = "create" => i = 1

C8_Witness ==
    /\ Built
    /\ derived = "init"
    /\ config.delete
    /\ config.switchover
    /\ config.target # None
    /\ config.target.engine_version = "15.7"
    /\ actions = <<>>
    /\ pc = "done"

(* Every target field that is set equals the field of the instance *)
TargetMatches(instance) ==
    \/ config.target = None
    \/ \A f \in TargetFields :
            config.target[f] # Unset => config.target[f] = InstanceValue(instance, f)

(* C9: with no deployment in the snapshot, every target field that is set
   equal to the field of the live instance, switchover false and delete true,
   the plan is empty and the pass makes no mutating call: it returns with the
   state still init. *)
C9_NoOpFromInit ==
    (/\ Built
     /\ snapshot.deployment = None
     /\ ~config.switchover
     /\ config.delete
     /\ TargetMatches(snapshot.instance)) =>
        /\ actions = <<>>
        /\ calls = <<>>
        /\ handled = <<>>
        /\ pc \in {"loop", "done"}
        /\ pc = "done" => result = "init"

C9_Witness ==
    /\ Built
    /\ snapshot.deployment = None
    /\ ~config.switchover
    /\ config.delete
    /\ config.target # None
    /\ config.target.engine_version = "15.7"
    /\ config.target.instance_class = "db.t4g.micro"
    /\ ~dry_run
    /\ pc = "done"
    /\ result = "init"

(* The pass of C10: switchover and delete both set, no deployment in the
   snapshot, a target field that differs from the live instance, not a dry
   run *)
AllInOne ==
    /\ Built
    /\ ~dry_run
    /\ config.switchover
    /\ config.delete
    /\ snapshot.deployment = None
    /\ ~TargetMatches(snapshot.instance)

AllInOneHandlers ==
    <<"create", "wait_for_available", "switchover", "wait_for_switchover_completed",
      "delete_source_db_instance", "wait_for_source_db_instances_deleted",
      "delete", "wait_for_deleted">>

(* The member pairs of the deployment the service made of the create *)
CreatedMembers == Cardinality({i \in MemberIndex : rds_targets[i] # "absent"})

(* C10 as stated: the pass makes the four mutating calls once each, in order,
   each handler followed by its wait, and returns no_op. *)
C10_OnceEach ==
    (AllInOne /\ pc = "done") =>
        /\ [i \in DOMAIN calls |-> calls[i].op] =
                <<"create_blue_green_deployment", "switchover_blue_green_deployment",
                  "delete_db_instance", "delete_blue_green_deployment">>
        /\ handled = AllInOneHandlers
        /\ result = "no_op"

(* C10, amended: the pass plans the eight handlers create, switchover, delete
   source instances and delete deployment, each followed by its wait; its
   mutating calls are, in this order, one create, one switchover, one
   delete_db_instance for each source member of the deployment in the order of
   SwitchoverDetails, and one delete of the deployment without DeleteTarget;
   when it returns it has made them all and returns no_op. *)
C10_AllInOne ==
    AllInOne =>
        /\ [i \in DOMAIN actions |-> actions[i].type] = AllInOneHandlers
        /\ \A i \in DOMAIN calls :
                /\ i <= CreatedMembers + 3
                /\ calls[i].op =
                        IF i = 1 THEN "create_blue_green_deployment"
                        ELSE IF i = 2 THEN "switchover_blue_green_deployment"
                        ELSE IF i <= CreatedMembers + 2 THEN "delete_db_instance"
                        ELSE "delete_blue_green_deployment"
                /\ (2 < i /\ i <= CreatedMembers + 2) =>
                        calls[i].kwargs.DBInstanceIdentifier = MemberId("source", i - 2)
                /\ i = CreatedMembers + 3 => DOMAIN calls[i].kwargs = {"BlueGreenDeploymentIdentifier"}
        /\ pc = "done" =>
                /\ Len(calls) = CreatedMembers + 3
                /\ handled = AllInOneHandlers
                /\ result = "no_op"

C10_Witness ==
    /\ AllInOne
    /\ pc = "done"
    /\ result = "no_op"
    /\ Len(calls) = 5
    /\ rds_deployment = None

(* The statuses, as the snapshot shows them, of the members of the deployment
   under `key`, in the order of SwitchoverDetails *)
SnapshotMembers(key) ==
    LET details == snapshot.deployment.SwitchoverDetails
    IN  [i \in DOMAIN details |->
            IF key = "SourceMember"
            THEN snapshot.sources[details[i][key].index]
            ELSE snapshot.targets[details[i][key].index]]

SnapshotStatus(status) ==
    /\ Built
    /\ snapshot.deployment # None
    /\ snapshot.deployment.Status = status

(* C11: with a deployment of status AVAILABLE in the snapshot the derived
   state is available only if every target member's status is available;
   with a target member of another status it is provisioning and the plan
   starts with wait_for_available. *)
C11_AvailableNeedsAllTargets ==
    SnapshotStatus("AVAILABLE") =>
        LET targets == SnapshotMembers("TargetMember")
        IN  IF \A i \in DOMAIN targets : targets[i] = "available"
            THEN derived = "available"
            ELSE /\ derived = "provisioning"
                 /\ actions # <<>>
                 /\ actions[1].type = "wait_for_available"
                 /\ actions[1].next_state = "available"

C11_Witness ==
    /\ SnapshotStatus("AVAILABLE")
    /\ snapshot.targets[1] = "available"
    /\ snapshot.targets[2] = "creating"
    /\ derived = "provisioning"
    /\ ~dry_run
    /\ idx = 1
    /\ model.state = "available"

(* C12: with a deployment of status SWITCHOVER_COMPLETED in the snapshot the
   derived state is source_db_instances_deleted when no source member
   resolves to an instance, else deleting_source_db_instances when a source
   instance has status deleting, else switchover_completed; in the first
   case the plan holds no delete_source_db_instance and delete_db_instance
   is not called. *)
C12_SwitchoverCompletedDerivation ==
    SnapshotStatus("SWITCHOVER_COMPLETED") =>
        LET sources == SnapshotMembers("SourceMember")
        IN  IF \A i \in DOMAIN sources : sources[i] = "absent"
            THEN /\ derived = "source_db_instances_deleted"
                 /\ ~HasAction("delete_source_db_instance")
                 /\ ~HasCall("delete_db_instance")
            ELSE IF \E i \in DOMAIN sources : sources[i] = "deleting"
                 THEN derived = "deleting_source_db_instances"
                 ELSE derived = "switchover_completed"

C12_Witness ==
    /\ SnapshotStatus("SWITCHOVER_COMPLETED")
    /\ derived = "source_db_instances_deleted"
    /\ config.delete
    /\ ~dry_run
    /\ pc = "done"
    /\ result = "no_op"
    /\ Len(calls) = 1

(* C13: without a deployment in the snapshot the derived state is init; the
   statuses PROVISIONING, SWITCHOVER_IN_PROGRESS and DELETING give the states
   of the same name; a status outside the five known ones ends construction
   with the unexpected-status error, whatever else is wrong, and no state is
   derived. *)
C13_StateDerivation ==
    snapshot # None =>
        /\ (Built /\ snapshot.deployment = None) => derived = "init"
        /\ SnapshotStatus("PROVISIONING") => derived = "provisioning"
        /\ SnapshotStatus("SWITCHOVER_IN_PROGRESS") => derived = "switchover_in_progress"
        /\ SnapshotStatus("DELETING") => derived = "deleting"
        /\ (/\ snapshot.deployment # None
            /\ snapshot.deployment.Status \notin
                    {"PROVISIONING", "AVAILABLE", "SWITCHOVER_IN_PROGRESS",
                     "SWITCHOVER_COMPLETED", "DELETING"}) =>
                /\ pc = "failed"
                /\ error = "Unexpected Blue/Green Deployment status"
                /\ model = None
                /\ derived = Unset
                /\ actions = <<>>

C13_Witness ==
    /\ pc = "failed"
    /\ error = "Unexpected Blue/Green Deployment status"
    /\ snapshot.deployment.Status = "INVALID_CONFIGURATION"
    /\ snapshot.instance = None

(* The state the plan ends in *)
PlanEnd == IF actions = <<>> THEN derived ELSE actions[Len(actions)].next_state

(* C14: from the state available, derived or reached in the plan, the plan
   goes on with switchover (to switchover_in_progress) whenever switchover is
   set, also when delete is set too; with delete_without_switchover (to
   deleting) when only delete is set; and ends there when neither is. *)
C14_RouteAvailable ==
    (Built /\ pc # "failed") =>
        /\ \A i \in DOMAIN actions :
                RoutedFrom(i) = "available" =>
                    IF config.switchover
                    THEN /\ actions[i].type = "switchover"
                         /\ actions[i].next_state = "switchover_in_progress"
                    ELSE /\ config.delete
                         /\ actions[i].type = "delete_without_switchover"
                         /\ actions[i].next_state = "deleting"
        /\ PlanEnd = "available" => (~config.switchover /\ ~config.delete)

C14_Witness ==
    /\ Built
    /\ derived = "available"
    /\ config.switchover
    /\ config.delete
    /\ actions[1].type = "switchover"
    /\ ~dry_run
    /\ pc = "done"

(* C15: from the state switchover_completed, derived or reached in the plan,
   the plan goes on with delete_source_db_instance (to
   deleting_source_db_instances) if and only if delete is set; without delete
   the plan ends there and a pass that reaches it returns
   switchover_completed. *)
C15_RouteSwitchoverCompleted ==
    (Built /\ pc # "failed") =>
        /\ \A i \in DOMAIN actions :
                RoutedFrom(i) = "switchover_completed" =>
                    /\ config.delete
                    /\ actions[i].type = "delete_source_db_instance"
                    /\ actions[i].next_state = "deleting_source_db_instances"
        /\ PlanEnd = "switchover_completed" => ~config.delete
        /\ (PlanEnd = "switchover_completed" /\ pc = "done" /\ ~dry_run) =>
                result = "switchover_completed"

C15_Witness ==
    /\ Built
    /\ derived = "available"
    /\ config.switchover
    /\ ~config.delete
    /\ ~dry_run
    /\ pc = "done"
    /\ result = "switchover_completed"
    /\ Len(calls) = 1

(* C18: a model that was constructed holds the instance; holds the target
   parameter group when the target names one; its instance has deletion
   protection off, a backup retention period above 0, the engine postgres or
   mysql and every parameter group in-sync; and the target engine version,
   the explicit one or else the current one, is a key of its valid upgrade
   targets. *)
C18_ConstructedModelValid ==
    Built =>
        /\ model.db_instance # None
        /\ (config.target # None /\ config.target.parameter_group_name # Unset) =>
                /\ model.target_db_parameter_group # None
                /\ model.target_db_parameter_group.DBParameterGroupName =
                        config.target.parameter_group_name
        /\ ~model.db_instance.DeletionProtection
        /\ model.db_instance.BackupRetentionPeriod > 0
        /\ model.db_instance.Engine \in {"postgres", "mysql"}
        /\ \A g \in DOMAIN model.db_instance.DBParameterGroups :
                model.db_instance.DBParameterGroups[g].ParameterApplyStatus = "in-sync"
        /\ (IF config.target # None /\ config.target.engine_version # Unset
            THEN config.target.engine_version
            ELSE model.db_instance.EngineVersion) \in DOMAIN model.valid_upgrade_targets

C18_Witness ==
    /\ Built
    /\ config.target # None
    /\ config.target.parameter_group_name = "test-rds-pg16"
    /\ config.target.engine_version = "16.3"
    /\ model.valid_upgrade_targets["16.3"].IsMajorVersionUpgrade
    /\ pc = "loop"


(* The request key of a target field, as the RDS client spells it *)
OverrideKey ==
    [allocated_storage |-> "TargetAllocatedStorage",
     engine_version |-> "TargetEngineVersion",
     instance_class |-> "TargetDBInstanceClass",
     iops |-> "TargetIops",
     parameter_group_name |-> "TargetDBParameterGroupName",
     storage_throughput |-> "TargetStorageThroughput",
     storage_type |-> "TargetStorageType"]

(* The target fields the configuration sets *)
ExplicitFields ==
    IF config = None \/ config.target = None
    THEN {}
    ELSE {f \in TargetFields : config.target[f] # Unset}

(* C16: the create request carries the deployment name (the instance
   identifier), the source ARN, the tags, and a target override for exactly
   the target fields the configuration sets, each with the configured value;
   a field that is not set has no key in the request. *)
C16_CreateRequest ==
    \A i \in DOMAIN calls :
        calls[i].op = "create_blue_green_deployment" =>
            LET kwargs == calls[i].kwargs
            IN  /\ DOMAIN kwargs =
                       {"BlueGreenDeploymentName", "Source"}
                       \cup (IF snapshot.tags # None THEN {"Tags"} ELSE {})
                       \cup {OverrideKey[f] : f \in ExplicitFields}
                /\ kwargs.BlueGreenDeploymentName = snapshot.db_instance_identifier
                /\ kwargs.Source = rds_instance.DBInstanceArn
                /\ snapshot.tags # None =>
                       /\ Len(kwargs.Tags) = Cardinality(DOMAIN snapshot.tags)
                       /\ \A key \in DOMAIN snapshot.tags :
                              \E j \in DOMAIN kwargs.Tags :
                                  kwargs.Tags[j] = [Key |-> key, Value |-> snapshot.tags[key]]
                /\ \A f \in ExplicitFields : kwargs[OverrideKey[f]] = config.target[f]

(* A create request was sent for a target with a set and an unset field *)
C16_Witness ==
    /\ HasCall("create_blue_green_deployment")
    /\ snapshot.tags # None
    /\ ExplicitFields = {"engine_version", "iops"}


(* The live value a target field is compared with *)
LiveValue ==
    [allocated_storage |-> rds_instance.AllocatedStorage,
     engine_version |-> rds_instance.EngineVersion,
     instance_class |-> rds_instance.DBInstanceClass,
     iops |-> rds_instance.Iops,
     parameter_group_name |-> rds_instance.DBParameterGroups[1].DBParameterGroupName,
     storage_throughput |-> rds_instance.StorageThroughput,
     storage_type |-> rds_instance.StorageType]

(* C17: _no_changes() is true exactly when every target field the
   configuration sets (parameter group name, iops, engine version, instance
   class, storage throughput, storage type, allocated storage) equals the
   live instance's field; fields that are not set have no influence, and an
   empty or absent target gives true. With switchover and delete set, the
   plan from init creates a deployment exactly when it is false. *)
C17_NoChanges ==
    Built =>
        /\ _no_changes(model) <=> (\A f \in ExplicitFields : config.target[f] = LiveValue[f])
        /\ ExplicitFields = {} => _no_changes(model)
        /\ (config.switchover /\ config.delete) =>
               (HasAction("create") <=>
                   \E f \in ExplicitFields : config.target[f] # LiveValue[f])

(* A model whose target sets two fields to the live values and leaves the
   others unset: nothing is planned *)
C17_Witness ==
    /\ Built
    /\ config.switchover /\ config.delete
    /\ ExplicitFields = {"iops", "storage_type"}
    /\ config.target.iops = rds_instance.Iops
    /\ config.target.storage_type = rds_instance.StorageType
    /\ _no_changes(model)
    /\ actions = <<>>


(* The upgrade target the validators select: the configured engine version,
   else the current one *)
SelectedUpgradeTarget ==
    snapshot.valid_upgrade_targets[
        IF config.target # None /\ config.target.engine_version # Unset
        THEN config.target.engine_version
        ELSE rds_instance.EngineVersion]

(* Construction was attempted for an instance of the engine *)
ConstructedFor(engine) ==
    /\ pc # "start"
    /\ snapshot.db_instance.Engine = engine

(* Construction was rejected on the engine-version rule *)
RejectedOnVersion(engine) ==
    /\ pc = "failed"
    /\ ~Built
    /\ error = engine \o " engine_version is not supported for blue/green deployment"

(* The published minimum minor version of a postgres major version *)
PostgresMinimumMinor ==
    (11 :> 21) @@ (12 :> 16) @@ (13 :> 12) @@ (14 :> 9) @@ (15 :> 4) @@ (16 :> 1)

(* The current version is 16.1 or later, or at or above the minimum of its
   major version *)
PostgresCurrentSupported ==
    LET current == parse_semver(rds_instance.EngineVersion)
    IN  \/ current.major > 16
        \/ current.major = 16 /\ current.minor >= 1
        \/ /\ current.major \in DOMAIN PostgresMinimumMinor
           /\ current.minor >= PostgresMinimumMinor[current.major]

(* C19: for engine postgres, construction is rejected on the engine-version
   rule exactly when the selected upgrade target is a major-version upgrade
   and the current version is unsupported (supported: 16.1 or later, or major
   11..16 with minor at or above 11.21, 12.16, 13.12, 14.9, 15.4, 16.1); for
   a target that is not a major upgrade the rule never rejects. *)
C19_PostgresRule ==
    ConstructedFor("postgres") =>
        /\ RejectedOnVersion("postgres") <=>
               (SelectedUpgradeTarget.IsMajorVersionUpgrade /\ ~PostgresCurrentSupported)
        /\ ~SelectedUpgradeTarget.IsMajorVersionUpgrade => Built

(* postgres 15.3 with a major upgrade selected was rejected *)
C19_Witness ==
    /\ ConstructedFor("postgres")
    /\ rds_instance.EngineVersion = "15.3"
    /\ SelectedUpgradeTarget.IsMajorVersionUpgrade
    /\ RejectedOnVersion("postgres")

(* The current version's major.minor is one of 5.7, 8.0, 8.4 *)
MysqlCurrentSupported ==
    LET current == parse_semver(rds_instance.EngineVersion)
    IN  <<current.major, current.minor>> \in {<<5, 7>>, <<8, 0>>, <<8, 4>>}

(* C20 as stated: for engine mysql the engine-version rule applies only if
   the selected upgrade target is a major-version upgrade; then construction
   is rejected iff the current version's major.minor is not one of 5.7, 8.0,
   8.4, and for a target that is not a major upgrade no current version is
   rejected by the rule. *)
C20_MysqlRuleMajorOnly ==
    ConstructedFor("mysql") =>
        /\ RejectedOnVersion("mysql") <=>
               (SelectedUpgradeTarget.IsMajorVersionUpgrade /\ ~MysqlCurrentSupported)
        /\ ~SelectedUpgradeTarget.IsMajorVersionUpgrade => ~RejectedOnVersion("mysql")

(* C20, amended: for engine mysql the engine-version rule applies whether or
   not the selected upgrade target is a major-version upgrade: construction
   is rejected iff the current version's major.minor is not one of 5.7, 8.0,
   8.4. *)
C20_MysqlRule ==
    ConstructedFor("mysql") =>
        /\ RejectedOnVersion("mysql") <=> ~MysqlCurrentSupported
        /\ ~RejectedOnVersion("mysql") => Built

(* mysql 5.6.2 was rejected although the selected target is not a major
   upgrade *)
C20_Witness ==
    /\ ConstructedFor("mysql")
    /\ rds_instance.EngineVersion = "5.6.2"
    /\ ~SelectedUpgradeTarget.IsMajorVersionUpgrade
    /\ RejectedOnVersion("mysql")


(* The last condition check of the wait_for *)
LastCheck == wait.checks[Len(wait.checks)]

(* At check i the condition was false and at least the timeout had elapsed *)
Overdue(i) ==
    /\ wait.timeout # None
    /\ ~wait.checks[i].met
    /\ wait.checks[i].at - wait.start_time >= wait.timeout.seconds * Resolution

(* C21: wait_for with a timeout raises the timeout error at the first check
   at which the condition is false and the elapsed time is at least the
   timeout, and only then; it never raises after a check at which the
   condition was true, even past the deadline; and the condition is evaluated
   at least once whatever the timeout. *)
C21_TimeoutAtFirstOverdueCheck ==
    /\ wait.pc = "TimeoutError" <=> (wait.checks # <<>> /\ Overdue(Len(wait.checks)))
    /\ \A i \in DOMAIN wait.checks : Overdue(i) => i = Len(wait.checks)
    /\ (wait.checks # <<>> /\ LastCheck.met) => wait.pc = "returned"
    /\ wait.pc \in {"returned", "TimeoutError"} => Len(wait.checks) >= 1

(* The timeout error was raised at the second check, exactly at the timeout *)
C21_Witness ==
    /\ wait.pc = "TimeoutError"
    /\ Len(wait.checks) = 2
    /\ wait.timeout # None
    /\ LastCheck.at - wait.start_time = wait.timeout.seconds * Resolution

(* What holds of a wait_for in every state *)
ReturnsWhenMet ==
    /\ wait.pc = "returned" <=> (wait.checks # <<>> /\ LastCheck.met)
    /\ \A i \in DOMAIN wait.checks : wait.checks[i].met => i = Len(wait.checks)
    /\ (wait.checks # <<>> /\ wait.checks[1].met) => wait.sleeps = <<>>
    /\ Len(wait.sleeps) =
           IF wait.pc \in {"start", "check"}
           THEN Len(wait.checks)
           ELSE Len(wait.checks) - 1
    /\ \A j \in DOMAIN wait.sleeps : wait.sleeps[j] = wait.interval
    /\ wait.timeout = None => wait.pc # "TimeoutError"
    /\ wait.pc = "returned" => \E n \in DOMAIN wait.condition : wait.condition[n]

(* C22: wait_for returns as soon as a condition check is true: with the
   condition true at the first check it returns without sleeping, otherwise
   it sleeps exactly one interval between consecutive checks; with no timeout
   it never raises a timeout, and it terminates if and only if the condition
   is eventually true. *)
C22_ReturnsWhenMet ==
    /\ []ReturnsWhenMet
    /\ (wait.timeout = None /\ \E n \in DOMAIN wait.condition : wait.condition[n])
           ~> (wait.pc = "returned")

(* Without a timeout the condition was met at the third check, after two
   sleeps *)
C22_Witness ==
    /\ wait.pc = "returned"
    /\ wait.timeout = None
    /\ Len(wait.checks) = 3
    /\ Len(wait.sleeps) = 2


(* C23: the pre-run hook exits with the success code when the manager returns
   not_enabled or no_op, with the skip code for each of init, provisioning,
   available, switchover_in_progress, switchover_completed,
   deleting_source_db_instances, source_db_instances_deleted and deleting,
   and with the failure code when the manager raises; no returned state
   leaves the hook without one of these codes. *)
C23_ExitCodes ==
    pc = "exit" =>
        /\ exit_code \in {"EXIT_OK", "EXIT_SKIP", "EXIT_ERROR"}
        /\ result \notin LaterStates
        /\ exit_code = "EXIT_ERROR" <=> (error # Unset /\ result = Unset)
        /\ exit_code = "EXIT_OK" <=> result \in {"not_enabled", "no_op"}
        /\ exit_code = "EXIT_SKIP" <=>
               result \in {"init", "provisioning", "available", "switchover_in_progress",
                           "switchover_completed", "deleting_source_db_instances",
                           "source_db_instances_deleted", "deleting"}

(* The hook exited with the skip code after a pass that returned
   deleting_source_db_instances *)
C23_Witness ==
    /\ pc = "exit"
    /\ result = "deleting_source_db_instances"
    /\ exit_code = "EXIT_SKIP"


(* C24: when a handler raises in a pass that is not a dry run, the pass
   aborts: no later action of the plan is executed, no call follows for the
   actions already executed, nothing is retried, and the error reaches the
   caller, which exits with the failure code. *)
C24_RaiseAborts ==
    [][(~dry_run /\ pass' = pass) =>
          /\ (error = Unset /\ error' # Unset) =>
                /\ pc' = "failed"
                /\ result' = Unset
                /\ idx' = idx
                /\ Len(calls') >= Len(calls)
                /\ SubSeq(calls', 1, Len(calls)) = calls
                /\ Built => (model'.state = model.state /\ Len(handled') = idx + 1)
          /\ error # Unset =>
                /\ pc \in {"failed", "exit"}
                /\ pc' \in {"failed", "exit"}
                /\ error' = error
                /\ result' = Unset
                /\ calls' = calls
                /\ handled' = handled
                /\ idx' = idx
                /\ model' = model
                /\ pc' = "exit" => exit_code' = "EXIT_ERROR"]_vars

(* The switchover handler raised after create and its wait: the hook exited
   with the failure code, the four actions left were not executed *)
C24_Witness ==
    /\ ~dry_run
    /\ pc = "exit"
    /\ exit_code = "EXIT_ERROR"
    /\ error = "ClientError"
    /\ idx = 2
    /\ handled = <<"create", "wait_for_available", "switchover">>
    /\ Len(actions) > 3
    /\ [i \in DOMAIN calls |-> calls[i].op] = <<"create_blue_green_deployment">>

-----------------------------------------------------------------------------
(* Repeated invocation *)

(* The pass before this one was left between two of its actions *)
Reinvoked == pass > 1 /\ prev.error = "ClientError"

(* The state the pass before this one was planned to end in *)
PlannedEnd == prev.actions[Len(prev.actions)].next_state

(* The pass before this one found the deployment being retired: its status
   was DELETING, or SWITCHOVER_COMPLETED with no source member left or one
   being deleted *)
FoundRetiring ==
    LET deployment == prev.snapshot.deployment
        sources == [i \in DOMAIN deployment.SwitchoverDetails |->
                        prev.snapshot.sources[
                            deployment.SwitchoverDetails[i].SourceMember.index]]
    IN  /\ deployment # None
        /\ \/ deployment.Status = "DELETING"
           \/ /\ deployment.Status = "SWITCHOVER_COMPLETED"
              /\ \/ \A i \in DOMAIN sources : sources[i] = "absent"
                 \/ \E i \in DOMAIN sources : sources[i] = "deleting"

(* The service shows the effect `call` asks for *)
EffectVisible(call) ==
    CASE call.op = "create_blue_green_deployment" -> rds_deployment # None
      [] call.op = "switchover_blue_green_deployment" ->
            rds_deployment = None \/ rds_deployment.Status # "AVAILABLE"
      [] call.op = "delete_db_instance" ->
            rds_sources[call.kwargs.DBInstanceIdentifier.index] \in {"deleting", "absent"}
      [] call.op = "delete_blue_green_deployment" ->
            rds_deployment = None \/ rds_deployment.Status = "DELETING"

(* The calls of a step ask for nothing the service already shows *)
NothingRepeated ==
    \A i \in DOMAIN calls' :
        i > Len(calls) => ~EffectVisible(calls'[i])

(* The pass found a source member being deleted and another left alone: it
   waits for the deletion of all and asks for the deletion of none *)
FoundHalfDeleted ==
    /\ snapshot # None
    /\ snapshot.deployment # None
    /\ snapshot.deployment.Status = "SWITCHOVER_COMPLETED"
    /\ \E i, j \in DOMAIN snapshot.deployment.SwitchoverDetails :
            /\ snapshot.sources[i] = "deleting"
            /\ snapshot.sources[j] = "available"

(* C25 as stated: a pass that follows a pass left between two of its actions
   returns the state that pass was planned to end in. *)
C25_SameFinalState ==
    (Reinvoked /\ pc = "done") => result = PlannedEnd

(* As C25 states it, but for the two cases the code decides otherwise *)
SameFinalState ==
    (/\ Reinvoked
     /\ pc = "done"
     /\ config.delete \/ ~FoundRetiring) =>
        IF snapshot.deployment = None /\ actions = <<>>
        THEN result = "init" /\ PlannedEnd = "no_op"
        ELSE result = PlannedEnd

(* A pass is followed by a pass that returns *)
PassesEnd == (pc = "loop" /\ ~FoundHalfDeleted) ~> (pc = "done")

(* C25, amended: when a pass that is not a dry run is left between two of its
   actions and the hook is invoked again with the same input, the passes go
   on from what the service shows until one returns, provided the service
   completes what was requested and the pass did not find one source member
   being deleted beside one left alone; no call asks for an effect the
   service already shows; and the pass that returns after an interrupted one
   returns the state that one was planned to end in, save that it returns
   init in place of no_op when it finds the deployment gone and nothing to
   do, and save the passes that, with delete not set, found the deployment
   being retired. *)
C25_SafeToRepeat ==
    /\ []SameFinalState
    /\ [][NothingRepeated]_vars
    /\ PassesEnd

C25_Witness ==
    /\ Reinvoked
    /\ pc = "done"
    /\ Len(prev.actions) = 8
    /\ result = "no_op"
    /\ PlannedEnd = "no_op"
    /\ HasCall("switchover_blue_green_deployment")
    /\ HasCall("delete_blue_green_deployment")
    /\ ~HasCall("create_blue_green_deployment")

-----------------------------------------------------------------------------
(* The model during a pass *)

(* The handlers that assign a field of the model *)
Refreshes ==
    [blue_green_deployment |->
        {"wait_for_available", "wait_for_switchover_completed", "wait_for_deleted"},
     target_db_instances |-> {"wait_for_available"},
     source_db_instances |->
        {"delete_source_db_instance", "wait_for_source_db_instances_deleted"}]

(* What a handler that assigns field f reads from the service for it *)
Fetched(f) ==
    CASE f = "blue_green_deployment" -> rds_deployment
      [] f = "target_db_instances" ->
            _fetch_target_db_instances(rds_sources, rds_targets, rds_deployment)
      [] f = "source_db_instances" ->
            _fetch_source_db_instances(
                rds_sources, rds_targets, model.blue_green_deployment)

(* The model is the one of the step before: the pass goes on *)
SameModel == Built /\ model' # None

(* C26 as stated: during a pass no step changes a field of the model but
   state. *)
C26_ReadOnlyButState ==
    [][SameModel =>
        \A f \in DOMAIN model \ {"state"} : model'[f] = model[f]]_vars

(* C26, amended: during a pass the configuration, the identifier, the
   instance, the valid upgrade targets, the target parameter group and the
   tags of the model are never changed; state is assigned only when a handler
   returned, in a pass that is not a dry run, and takes the next_state of the
   action; the deployment and the member lists are assigned only by the
   handlers that read them again (the deployment by the three waits on it,
   the target members by wait_for_available, the source members by
   delete_source_db_instance and wait_for_source_db_instances_deleted), which
   leave in the model what they read. *)
C26_FrameOfPass ==
    [][SameModel =>
        /\ \A f \in DOMAIN model \ ({"state"} \cup DOMAIN Refreshes) :
                model'[f] = model[f]
        /\ model'.state # model.state =>
                /\ InLoop
                /\ ~dry_run
                /\ idx' = idx + 1
                /\ model'.state = Current.next_state
        /\ \A f \in DOMAIN Refreshes :
                /\ model'[f] # model[f] =>
                        /\ InLoop
                        /\ ~dry_run
                        /\ Current.type \in Refreshes[f]
                /\ (idx' = idx + 1 /\ Current.type \in Refreshes[f]) =>
                        model'[f] = Fetched(f)]_vars

C26_Witness ==
    /\ Built
    /\ ~dry_run
    /\ model.state = "switchover_completed"
    /\ snapshot.deployment # None
    /\ snapshot.deployment.Status = "PROVISIONING"
    /\ model.blue_green_deployment.Status = "SWITCHOVER_COMPLETED"
    /\ model.target_db_instances #
            _fetch_target_db_instances(
                snapshot.sources, snapshot.targets, snapshot.deployment)
    /\ model.db_instance = snapshot.instance
    /\ model.db_instance # rds_instance
    /\ model.config = config

-----------------------------------------------------------------------------
(* The deletion of the deployment *)

(* The delete_blue_green_deployment calls of the pass *)
DeleteDeploymentCalls ==
    {i \in DOMAIN calls : calls[i].op = "delete_blue_green_deployment"}

(* The actions entered so far that delete the deployment *)
DeleteActionsEntered ==
    {j \in DOMAIN handled : handled[j] \in {"delete", "delete_without_switchover"}}

(* C27: a pass calls delete_blue_green_deployment at most once. A call with
   DeleteTarget carries true and is made by the delete_without_switchover
   action, routed from available to deleting with switchover false and delete
   true; a call without DeleteTarget is made by the delete action, routed
   from source_db_instances_deleted to deleting. Each of the two actions,
   once its handler returned, has made its call. *)
C27_DeleteDeployment ==
    /\ Cardinality(DeleteDeploymentCalls) <= 1
    /\ \A i \in DeleteDeploymentCalls :
            /\ Cardinality(DeleteActionsEntered) = 1
            /\ \A j \in DeleteActionsEntered :
                    /\ actions[j].type = handled[j]
                    /\ actions[j].next_state = "deleting"
                    /\ IF "DeleteTarget" \in DOMAIN calls[i].kwargs
                       THEN /\ calls[i].kwargs.DeleteTarget = TRUE
                            /\ actions[j].type = "delete_without_switchover"
                            /\ RoutedFrom(j) = "available"
                            /\ ~config.switchover
                            /\ config.delete
                       ELSE /\ actions[j].type = "delete"
                            /\ RoutedFrom(j) = "source_db_instances_deleted"
    /\ (Built /\ ~dry_run) =>
            \A j \in 1..idx :
                actions[j].type \in {"delete", "delete_without_switchover"} =>
                    DeleteDeploymentCalls # {}

C27_Witness ==
    /\ pc = "done"
    /\ result = "no_op"
    /\ derived = "provisioning"
    /\ Len(calls) = 1
    /\ calls[1].op = "delete_blue_green_deployment"
    /\ "DeleteTarget" \in DOMAIN calls[1].kwargs
    /\ handled = <<"wait_for_available", "delete_without_switchover", "wait_for_deleted">>

-----------------------------------------------------------------------------
(* The deletion of the source members *)

(* The delete_db_instance calls of the pass *)
DeleteInstanceCalls == {i \in DOMAIN calls : calls[i].op = "delete_db_instance"}

(* The source members of the model's deployment the service still shows, in
   the order of SwitchoverDetails *)
SourcesLeft ==
    LET Left(d) == rds_sources[d.SourceMember.index] # "absent"
    IN  SelectSeq(model.blue_green_deployment.SwitchoverDetails, Left)

(* The calls the step added to the log *)
NewCalls == SubSeq(calls', Len(calls) + 1, Len(calls'))

(* Every delete_db_instance call names a source member, none twice *)
OnlySourcesDeleted ==
    \A i \in DeleteInstanceCalls :
        LET identifier == calls[i].kwargs.DBInstanceIdentifier
        IN  /\ identifier.role = "source"
            /\ identifier.index \in MemberIndex
            /\ identifier # MemberId("target", identifier.index)
            /\ \A j \in DeleteInstanceCalls :
                    calls[j].kwargs.DBInstanceIdentifier = identifier => j = i

(* C28: the step in which the delete_source_db_instance handler returns adds
   to the log one delete_db_instance call for each source member of the
   deployment that the service shows at that time, in the order of
   SwitchoverDetails, and nothing else; and no delete_db_instance call of a
   pass names an instance that is not a source member of the deployment (a
   target member, the instance the identifier resolves to), or names a
   member twice. *)
C28_DeleteSources ==
    /\ []OnlySourcesDeleted
    /\ [][(/\ InLoop
           /\ ~dry_run
           /\ Current.type = "delete_source_db_instance"
           /\ idx' = idx + 1) =>
            /\ Len(NewCalls) = Len(SourcesLeft)
            /\ \A i \in DOMAIN NewCalls :
                    NewCalls[i] = [op |-> "delete_db_instance",
                                   kwargs |-> [DBInstanceIdentifier |->
                                                    SourcesLeft[i].SourceMember,
                                               SkipFinalSnapshot |-> TRUE]]
            /\ model'.source_db_instances =
                    [i \in DOMAIN SourcesLeft |->
                        [DBInstanceIdentifier |-> SourcesLeft[i].SourceMember,
                         DBInstanceStatus |->
                            rds_sources[SourcesLeft[i].SourceMember.index]]]]_vars

C28_Witness ==
    /\ Built
    /\ snapshot.deployment = None
    /\ model.source_db_instances # <<>>
    /\ Cardinality(DeleteInstanceCalls) = 2
    /\ HasCall("create_blue_green_deployment")
    /\ model.state = "deleting_source_db_instances"
    /\ rds_sources = <<"deleting", "deleting">>

-----------------------------------------------------------------------------
(* The waits *)

(* The handler of an action of type `type` returns in this step *)
Returns(type) ==
    /\ InLoop
    /\ ~dry_run
    /\ Current.type = type
    /\ idx' = idx + 1

(* The target members of the deployment that the service resolves are all
   available *)
TargetsAvailable ==
    \A i \in DOMAIN rds_deployment.SwitchoverDetails :
        rds_targets[rds_deployment.SwitchoverDetails[i].TargetMember.index]
            \in {"available", "absent"}

(* C29: the wait_for_available handler returns only in a step whose poll
   reads from the service a deployment of status AVAILABLE whose target
   members are all available; wait_for_switchover_completed only when it
   reads a deployment of status SWITCHOVER_COMPLETED; wait_for_deleted only
   when it reads that there is no deployment; and the model then holds what
   the poll read. *)
C29_WaitsReturnOnCondition ==
    [][/\ Returns("wait_for_available") =>
            /\ rds_deployment # None
            /\ rds_deployment.Status = "AVAILABLE"
            /\ TargetsAvailable
            /\ model'.blue_green_deployment = rds_deployment
            /\ \A i \in DOMAIN model'.target_db_instances :
                    model'.target_db_instances[i].DBInstanceStatus = "available"
       /\ Returns("wait_for_switchover_completed") =>
            /\ rds_deployment # None
            /\ rds_deployment.Status = "SWITCHOVER_COMPLETED"
            /\ model'.blue_green_deployment = rds_deployment
       /\ Returns("wait_for_deleted") =>
            /\ rds_deployment = None
            /\ model'.blue_green_deployment = None]_vars

C29_Witness ==
    /\ pc = "done"
    /\ ~dry_run
    /\ Built
    /\ snapshot.deployment # None
    /\ snapshot.deployment.Status = "PROVISIONING"
    /\ snapshot.targets = <<"creating", "creating">>
    /\ handled = <<"wait_for_available", "switchover", "wait_for_switchover_completed">>
    /\ result = "switchover_completed"
    /\ model.blue_green_deployment.Status = "SWITCHOVER_COMPLETED"
    /\ rds_targets = <<"available", "available">>

-----------------------------------------------------------------------------
(* The deployment is deleted after its source members *)

(* The step adds a delete_blue_green_deployment call without DeleteTarget *)
DeletesDeployment ==
    \E i \in DOMAIN NewCalls :
        /\ NewCalls[i].op = "delete_blue_green_deployment"
        /\ "DeleteTarget" \notin DOMAIN NewCalls[i].kwargs

(* C30: a pass that is not a dry run calls delete_blue_green_deployment
   without DeleteTarget only when the last reading of the source members, by
   _build_model (the derived state is then source_db_instances_deleted) or
   by the poll with which wait_for_source_db_instances_deleted returned,
   resolved none of them; the model holds that empty list, and the service
   shows no source member of the deployment when the call is made. *)
C30_DeleteAfterSourcesGone ==
    [][DeletesDeployment =>
        /\ ~dry_run
        /\ InLoop
        /\ Current.type = "delete"
        /\ model.source_db_instances = <<>>
        /\ SourcesLeft = <<>>
        /\ IF idx = 0
           THEN /\ derived = "source_db_instances_deleted"
                /\ _fetch_source_db_instances(
                        snapshot.sources, snapshot.targets, snapshot.deployment) = <<>>
           ELSE /\ actions[idx].type = "wait_for_source_db_instances_deleted"
                /\ handled[idx] = "wait_for_source_db_instances_deleted"]_vars

C30_Witness ==
    /\ Built
    /\ ~dry_run
    /\ derived = "switchover_completed"
    /\ snapshot.sources = <<"available", "available">>
    /\ handled = <<"delete_source_db_instance", "wait_for_source_db_instances_deleted",
                   "delete">>
    /\ Cardinality(DeleteInstanceCalls) = 2
    /\ DeleteDeploymentCalls = {3}
    /\ "DeleteTarget" \notin DOMAIN calls[3].kwargs
    /\ rds_sources = <<"absent", "absent">>
    /\ model.state = "deleting"

-----------------------------------------------------------------------------
(* What run() returns *)

(* C31: a pass whose plan is empty returns the derived state, dry run or
   not, and that state is init, available or switchover_completed; a pass
   that is not a dry run and completes a plan that is not empty returns the
   next_state of the last action of the plan. *)
C31_ReturnedState ==
    (Built /\ pc = "done") =>
        IF actions = <<>>
        THEN /\ result = derived
             /\ model.state = derived
             /\ derived \in {"init", "available", "switchover_completed"}
             /\ calls = <<>>
        ELSE ~dry_run => result = actions[Len(actions)].next_state

C31_Witness ==
    /\ Built
    /\ pc = "done"
    /\ ~dry_run
    /\ actions = <<>>
    /\ derived = "init"
    /\ result = "init"
    /\ config.delete
    /\ ~config.switchover

-----------------------------------------------------------------------------
(* The rerun marker *)

(* WORK names a directory *)
WorkSet(workdir) == workdir \notin {Unset, ""}

(* mark_rerun was called before call i, with the WORK of call i *)
MarkedBefore(i) ==
    \E j \in 1..(i - 1) :
        /\ runtime.log[j].op = "mark_rerun"
        /\ runtime.log[j].WORK = runtime.log[i].WORK

(* The marker files there are after the calls before call i *)
FilesBefore(i) ==
    {<<runtime.log[j].WORK, "rerun">> :
        j \in {k \in 1..(i - 1) : /\ runtime.log[k].op = "mark_rerun"
                                  /\ WorkSet(runtime.log[k].WORK)}}

(* C32: with WORK naming a directory that starts without the marker,
   mark_rerun returns every time it is called, should_rerun gives true if and
   only if mark_rerun was called before with the same WORK, and post_run
   exits with EXIT_ERROR if it was and with EXIT_OK if not; with WORK not set,
   or empty, each of the three ends with the ValueError and the files stay as
   they were; the files are at all times the markers of the directories
   mark_rerun was called for. *)
C32_RerunMarker ==
    /\ runtime.files = FilesBefore(Len(runtime.log) + 1)
    /\ \A i \in DOMAIN runtime.log :
        LET call == runtime.log[i]
        IN  IF ~WorkSet(call.WORK)
            THEN call.outcome = "ValueError"
            ELSE CASE call.op = "mark_rerun" -> call.outcome = "returned"
                   [] call.op = "should_rerun" ->
                        call.outcome = IF MarkedBefore(i) THEN "True" ELSE "False"
                   [] call.op = "post_run" ->
                        call.outcome = IF MarkedBefore(i) THEN "EXIT_ERROR" ELSE "EXIT_OK"

C32_Witness ==
    /\ Len(runtime.log) = 3
    /\ runtime.log[1] = [op |-> "mark_rerun", WORK |-> "/work/a", outcome |-> "returned"]
    /\ runtime.log[2] = [op |-> "mark_rerun", WORK |-> "/work/a", outcome |-> "returned"]
    /\ runtime.log[3] = [op |-> "post_run", WORK |-> "/work/a", outcome |-> "EXIT_ERROR"]

-----------------------------------------------------------------------------
(* Passes with delete false *)

(* The types of the planned actions *)
PlannedTypes == {actions[i].type : i \in DOMAIN actions}

(* The actions that delete, and the waits for a deletion *)
DeleteTypes == {"delete_source_db_instance", "delete", "delete_without_switchover"}

DeletionWaitTypes == {"wait_for_source_db_instances_deleted", "wait_for_deleted"}

(* The derived states of a deployment that is being retired *)
RetiringStates ==
    {"deleting_source_db_instances", "source_db_instances_deleted", "deleting"}

(* C33 as stated: in a pass with delete false no delete action is planned and
   neither delete_db_instance nor delete_blue_green_deployment is called,
   whatever the derived state. *)
C33_NothingDeletedWithoutFlag ==
    (Built /\ ~config.delete) =>
        /\ PlannedTypes \cap DeleteTypes = {}
        /\ DeleteInstanceCalls = {}
        /\ DeleteDeploymentCalls = {}

(* C33, amended: in a pass with delete false that derives init, provisioning,
   available, switchover_in_progress or switchover_completed no delete action
   and no wait for a deletion is planned and neither delete call is made. A
   pass with delete false that finds the deployment being retired completes
   the retirement: from deleting_source_db_instances and from
   source_db_instances_deleted the delete action is planned, from deleting the
   wait for it, and delete_blue_green_deployment is called by that delete
   action only, without DeleteTarget. Whatever the derived state, with delete
   false delete_db_instance is never called and neither
   delete_source_db_instance nor delete_without_switchover is planned. *)
C33_DeleteFlagRead ==
    (Built /\ ~config.delete) =>
        /\ DeleteInstanceCalls = {}
        /\ PlannedTypes \cap {"delete_source_db_instance", "delete_without_switchover"} = {}
        /\ IF derived \in RetiringStates
           THEN /\ "wait_for_deleted" \in PlannedTypes
                /\ "delete" \in PlannedTypes <=> derived # "deleting"
                /\ \A i \in DeleteDeploymentCalls :
                        /\ "DeleteTarget" \notin DOMAIN calls[i].kwargs
                        /\ \E j \in DOMAIN handled : handled[j] = "delete"
           ELSE /\ PlannedTypes \cap (DeleteTypes \cup DeletionWaitTypes) = {}
                /\ DeleteDeploymentCalls = {}

C33_Witness ==
    /\ Built
    /\ pc = "done"
    /\ ~dry_run
    /\ ~config.delete
    /\ config.switchover
    /\ derived = "provisioning"
    /\ result = "switchover_completed"
    /\ Len(calls) = 1
    /\ calls[1].op = "switchover_blue_green_deployment"

-----------------------------------------------------------------------------
(* The switchover call *)

(* The switchover_blue_green_deployment calls of the pass *)
SwitchoverCalls ==
    {i \in DOMAIN calls : calls[i].op = "switchover_blue_green_deployment"}

(* The step adds a switchover_blue_green_deployment call *)
CallsSwitchover ==
    \E i \in DOMAIN NewCalls : NewCalls[i].op = "switchover_blue_green_deployment"

(* What the model holds of the deployment, read at construction or by the
   last poll of wait_for_available, shows it available *)
LastSeenAvailable ==
    /\ model.blue_green_deployment # None
    /\ model.blue_green_deployment.Status = "AVAILABLE"
    /\ \A i \in DOMAIN model.target_db_instances :
            model.target_db_instances[i].DBInstanceStatus = "available"

(* C34: a pass calls switchover_blue_green_deployment at most once and only
   with switchover true. The step that makes the call is the first of a pass
   that derived available, with the deployment and the target members of the
   construction snapshot in the model, or it follows the wait_for_available
   handler, whose last poll is in the model; in both cases what the model
   holds shows the deployment of status AVAILABLE and every target member
   resolved available. *)
C34_SwitchoverAfterAvailable ==
    /\ [](Cardinality(SwitchoverCalls) <= 1 /\ (SwitchoverCalls # {} => config.switchover))
    /\ [][CallsSwitchover =>
            /\ Built
            /\ ~dry_run
            /\ config.switchover
            /\ SwitchoverCalls = {}
            /\ Len(NewCalls) = 1
            /\ LastSeenAvailable
            /\ IF idx = 0
               THEN /\ derived = "available"
                    /\ model.blue_green_deployment = snapshot.deployment
               ELSE /\ handled[idx] = "wait_for_available"
                    /\ derived \in {"init", "provisioning"}]_vars

C34_Witness ==
    /\ Built
    /\ ~dry_run
    /\ pc = "loop"
    /\ derived = "init"
    /\ handled = <<"create", "wait_for_available", "switchover">>
    /\ Cardinality(SwitchoverCalls) = 1
    /\ rds_deployment # None
    /\ rds_deployment.Status = "SWITCHOVER_IN_PROGRESS"

-----------------------------------------------------------------------------
(* The loop of plan_actions *)

(* The position of a state on the way through _state_graph *)
StateRank ==
    [init |-> 0, provisioning |-> 1, available |-> 2, switchover_in_progress |-> 3,
     switchover_completed |-> 4, deleting_source_db_instances |-> 5,
     source_db_instances_deleted |-> 6, deleting |-> 7, no_op |-> 8]

(* The states the loop went through: the derived state and the next_state of
   each action in the plan *)
Visited == <<derived>> \o [i \in DOMAIN actions |-> actions[i].next_state]

(* The pass has planned and no handler has run: the model is as constructed *)
Planned == Built /\ pc = "loop" /\ idx = 0

(* C35: plan_actions returns for every derived state and every configuration.
   The states its loop goes through rise strictly along the state graph, so
   none is visited twice; each action in the plan is the one routed from the
   state before it, which is the derived state for the first and the
   next_state of the action before for the others; the loop ends at no_op or
   at a state whose routing function returns nothing, or, from init, with the
   no_op action that is not added to the plan; the plan has at most 8
   actions. *)
C35_PlanTerminates ==
    /\ (Built /\ pc # "start") => error # "Invalid next state"
    /\ Planned =>
        /\ Len(actions) <= 8
        /\ \A i, j \in DOMAIN Visited : i < j => StateRank[Visited[i]] < StateRank[Visited[j]]
        /\ \A i \in DOMAIN actions : actions[i] = RoutingFunc(model, RoutedFrom(i))
        /\ \/ PlanEnd = "no_op"
           \/ RoutingFunc(model, PlanEnd) = None
           \/ /\ actions = <<>>
              /\ derived = "init"
              /\ RoutingFunc(model, "init").type = "no_op"

C35_Witness ==
    /\ Planned
    /\ derived = "init"
    /\ Len(actions) = 8
    /\ Visited = <<"init", "provisioning", "available", "switchover_in_progress",
                   "switchover_completed", "deleting_source_db_instances",
                   "source_db_instances_deleted", "deleting", "no_op">>

-----------------------------------------------------------------------------
(* plan_actions reads only *)

(* The step constructs the model and plans *)
Plans == pc = "start" /\ pc' = "loop"

(* C36: after plan_actions the model is the one the constructor built from
   what _build_model read, state and every other field; planning has made no
   call, has read nothing more than _build_model and has left the service as
   it was; plan_actions called again on the model, and again on the model
   that call leaves, returns the same list of actions and raises nothing. *)
C36_PlanActionsPure ==
    [][Plans =>
        /\ model' = BlueGreenDeploymentModel(_build_model(config))
        /\ model'.state = derived'
        /\ calls' = calls
        /\ reads' = BuildReads(config)
        /\ rdsVars' = rdsVars
        /\ LET again == plan_actions(model')
           IN  /\ ~again.raised
               /\ again.actions = actions'
               /\ again.model = model'
               /\ plan_actions(again.model) = again]_vars

C36_Witness ==
    /\ Planned
    /\ derived = "available"
    /\ model.state = "available"
    /\ model.config.switchover
    /\ model.config.delete
    /\ Len(actions) = 6
    /\ plan_actions(model).actions = actions
    /\ calls = <<>>

-----------------------------------------------------------------------------
(* The states run() returns *)

(* The states a deployment rests in, and the states of a pass without one *)
RestingStates == {"not_enabled", "init", "available", "switchover_completed", "no_op"}

(* The states a deployment passes through *)
TransitionalStates ==
    {"provisioning", "switchover_in_progress", "deleting_source_db_instances",
     "source_db_instances_deleted", "deleting"}

(* C37: a pass that is not a dry run and returns, returns not_enabled, init,
   available, switchover_completed or no_op and none of provisioning,
   switchover_in_progress, deleting_source_db_instances,
   source_db_instances_deleted and deleting; a plan that is not empty ends
   with an action whose next_state is available, switchover_completed or
   no_op, and a pass with an empty plan has derived none of the five
   transitional states. *)
C37_ReturnsRestingState ==
    /\ (pc = "done" /\ ~dry_run) =>
            /\ result \in RestingStates
            /\ result \notin TransitionalStates
    /\ actions # <<>> =>
            actions[Len(actions)].next_state \in {"available", "switchover_completed", "no_op"}
    /\ (Built /\ pc \in {"loop", "done"} /\ actions = <<>>) =>
            derived \notin TransitionalStates

C37_Witness ==
    /\ Built
    /\ pc = "done"
    /\ ~dry_run
    /\ derived = "deleting_source_db_instances"
    /\ Len(actions) = 3
    /\ handled = <<"wait_for_source_db_instances_deleted", "delete", "wait_for_deleted">>
    /\ result = "no_op"

-----------------------------------------------------------------------------
(* The assertions of the handlers *)

(* The handlers that assert self.model.blue_green_deployment *)
AssertingTypes == {"switchover", "delete", "delete_without_switchover"}

(* The waits whose condition assigns the deployment it fetched to the model *)
FetchingTypes ==
    {"wait_for_available", "wait_for_switchover_completed", "wait_for_deleted"}

(* The step runs the handler of switchover, delete or
   delete_without_switchover *)
RunsAssertingHandler ==
    /\ InLoop
    /\ ~dry_run
    /\ Current.type \in AssertingTypes
    /\ <<pc, idx, calls, error>>' # <<pc, idx, calls, error>>

(* C38: no pass ends with an AssertionError. In every step that runs the
   handler of switchover, delete or delete_without_switchover the model
   holds a deployment, also in a pass that derived init and constructed the
   model without one: it is the deployment of the construction snapshot when
   no wait that fetches the deployment has run before, else one fetched by
   such a wait; the step makes one call, unless the client raises before the
   request is made, and the call carries the BlueGreenDeploymentIdentifier of
   the deployment in the model. *)
C38_AssertionsHold ==
    /\ [](error # "AssertionError")
    /\ [][RunsAssertingHandler =>
            /\ Built
            /\ model.blue_green_deployment # None
            /\ (\A j \in 1..idx : handled[j] \notin FetchingTypes) =>
                    model.blue_green_deployment = snapshot.deployment
            /\ derived = "init" =>
                    /\ idx >= 2
                    /\ handled[2] = "wait_for_available"
            /\ error' # "ClientError" => Len(NewCalls) = 1
            /\ \A i \in DOMAIN NewCalls :
                    /\ i = 1
                    /\ NewCalls[i].op \in {"switchover_blue_green_deployment",
                                           "delete_blue_green_deployment"}
                    /\ NewCalls[i].kwargs.BlueGreenDeploymentIdentifier =
                            model.blue_green_deployment.BlueGreenDeploymentIdentifier]_vars

C38_Witness ==
    /\ Built
    /\ ~dry_run
    /\ derived = "init"
    /\ snapshot.deployment = None
    /\ handled = <<"create", "wait_for_available", "switchover">>
    /\ idx = 3
    /\ error = Unset
    /\ Len(calls) = 2
    /\ calls[2].op = "switchover_blue_green_deployment"
    /\ calls[2].kwargs.BlueGreenDeploymentIdentifier =
            model.blue_green_deployment.BlueGreenDeploymentIdentifier

-----------------------------------------------------------------------------
(* The order of a plan *)

(* The wait that follows each action that changes the service *)
MatchingWait ==
    [create |-> "wait_for_available",
     switchover |-> "wait_for_switchover_completed",
     delete_source_db_instance |-> "wait_for_source_db_instances_deleted",
     delete |-> "wait_for_deleted",
     delete_without_switchover |-> "wait_for_deleted"]

(* C39: in every plan each of create, switchover, delete_source_db_instance,
   delete and delete_without_switchover is followed at once by its wait
   (wait_for_available, wait_for_switchover_completed,
   wait_for_source_db_instances_deleted, wait_for_deleted, wait_for_deleted),
   and no action type occurs twice in a plan. *)
C39_MutationThenWait ==
    /\ \A i \in DOMAIN actions :
            actions[i].type \in DOMAIN MatchingWait =>
                /\ i < Len(actions)
                /\ actions[i + 1].type = MatchingWait[actions[i].type]
    /\ \A i, j \in DOMAIN actions :
            actions[i].type = actions[j].type => i = j

C39_Witness ==
    /\ Planned
    /\ [i \in DOMAIN actions |-> actions[i].type] =
            <<"create", "wait_for_available", "switchover",
              "wait_for_switchover_completed", "delete_source_db_instance",
              "wait_for_source_db_instances_deleted", "delete", "wait_for_deleted">>

-----------------------------------------------------------------------------
(* The completed lifecycle *)

(* The instance has the value of every field the target sets *)
CarriesTarget(db_instance) ==
    /\ db_instance # None
    /\ \A f \in TargetFields :
            TargetOrDefault(config)[f] # Unset =>
                InstanceValue(db_instance, f) = TargetOrDefault(config)[f]

(* The pass before this one, with switchover and delete, returned no_op
   after it had waited for the deployment to be deleted *)
LifecycleCompleted ==
    /\ pass > 1
    /\ Enabled
    /\ ~dry_run
    /\ config.switchover
    /\ config.delete
    /\ prev.error = Unset
    /\ prev.result = "no_op"
    /\ prev.actions # <<>>
    /\ prev.actions[Len(prev.actions)].type = "wait_for_deleted"

(* The service after the lifecycle: no deployment, and the instance carries
   the target values *)
AtFixedPoint ==
    /\ Enabled
    /\ ~dry_run
    /\ config.switchover
    /\ config.delete
    /\ rds_deployment = None
    /\ CarriesTarget(rds_instance)

(* C40: after a pass with enabled, switchover and delete that returned no_op
   with the deployment deleted, the next pass finds no deployment; when the
   instance it reads carries the target values, it derives init, plans
   nothing, makes no call and returns init. The instance carries them
   whenever the pass before created the deployment itself. From then on
   nothing changes: with no deployment and the instance carrying the target
   values, no step of any later invocation makes a call or plans an action,
   and there stays no deployment and the same instance. *)
C40_LifecycleFixedPoint ==
    /\ []((LifecycleCompleted /\ Built) =>
            /\ snapshot.deployment = None
            /\ prev.actions[1].type = "create" => CarriesTarget(snapshot.instance)
            /\ CarriesTarget(snapshot.instance) =>
                    /\ derived = "init"
                    /\ actions = <<>>
                    /\ calls = <<>>
                    /\ error = Unset
                    /\ pc = "done" => result = "init")
    /\ [][AtFixedPoint =>
            /\ AtFixedPoint'
            /\ rds_instance' = rds_instance
            /\ NewCalls = <<>>
            /\ pc = "start" => actions' = <<>>]_vars

C40_Witness ==
    /\ LifecycleCompleted
    /\ Built
    /\ pc = "done"
    /\ Len(prev.actions) = 8
    /\ prev.snapshot.instance.EngineVersion = "15.7"
    /\ config.target.engine_version = "16.3"
    /\ snapshot.instance.EngineVersion = "16.3"
    /\ snapshot.deployment = None
    /\ actions = <<>>
    /\ calls = <<>>
    /\ result = "init"

====
